---- MODULE Spec2Model ----
(***************************************************************************)
(* Model of the storage-economics engine and the CommP v2 piece-size codec *)
(* of fs-upload-dapp.                                                      *)
(*                                                                         *)
(* Token amounts are JavaScript bigints and Decimal.js values in the       *)
(* source.  Every Decimal the modelled functions build comes from integer  *)
(* inputs by add, sub and mul, and every modelled value stays far below    *)
(* 10^34, so precision 34 (storageCalculations.ts:71-79) never rounds and  *)
(* the Decimals are modelled as integers.  TLC integers are 32 bits wide,  *)
(* so token amounts are counted in units of 10^16 wei.                     *)
(***************************************************************************)
EXTENDS Integers, Sequences, FiniteSets, TLC

VARIABLES
    call,       \* the pure function under evaluation and its arguments
    ret,        \* what the call returned or threw; NoRet before it ran
    chain,      \* what the collaborators answer to calculateStorageMetrics
    report,     \* outcome of calculateStorageMetrics; NoReport before it ran
    hook,       \* state of the React hook or component that drives a flow
    sent        \* the collaborator operations the flow has invoked, in order

vars == <<call, ret, chain, report, hook, sent>>

NoCall == [fn |-> "none"]
NoRet == <<>>      \* no function of the frame has returned yet
NoChain == [kind |-> "none"]
NoReport == [kind |-> "none"]
NoHook == [flow |-> "none"]
NoSent == <<>>

\* ------------------------------------------------------------- bounds
MaxAmount == 2          \* rates and lockup amounts range over 0..MaxAmount
MaxDays == 2            \* persistencePeriodDays, minDaysThreshold
MaxBalanceDays == 2     \* balances range around 0..MaxBalanceDays days of cost
MaxLockup == 5          \* remaining lockup and daily rates of the persistence calls
MaxPadding == 40        \* paddings of the piece-size calls: 0..MaxPadding and that far around the capacity
MaxHeight == 18         \* heights of the piece-size calls (128 * padding must fit 32 bits)
MaxCidLen == 5          \* length of the unstructured identifier inputs
MaxHexLen == 6          \* length of the unstructured hex-string inputs
MaxLengthBytes == 9     \* bytes of the longest multihash-length uvarint
MaxRate == 1            \* per-epoch rates the collaborators report
MaxLockupDays == 1      \* lockup amounts and balances the collaborators report, in days of cost
MaxFunds == 4           \* available funds of the account (part_009)
MaxPerDay == 2          \* price per day (part_009)
MaxPeriod == 2          \* config.persistencePeriod and config.minDaysThreshold

\* ---------------------------------------------------- program constants
\* TIME_CONSTANTS.EPOCHS_PER_DAY of @filoz/synapse-sdk (30 s epochs).
EPOCHS_PER_DAY == 2880
\* TIME_CONSTANTS.EPOCHS_PER_MONTH of @filoz/synapse-sdk (30 days).
EPOCHS_PER_MONTH == 86400
\* DATA_SET_CREATION_FEE = BigInt(0.1 * 10 ** 18) wei = 10 units of 10^16 wei.
DATA_SET_CREATION_FEE == 10
\* LEAF_SIZE = 32n
LEAF_SIZE == 32
\* SIZE_CONSTANTS.GiB of @filoz/synapse-sdk
GiB == 1073741824
\* SIZE_CONSTANTS.TiB / SIZE_CONSTANTS.GiB
GiBPerTiB == 1024

\* =====================================================================
\* Piece-size codec (src/utils/cids.ts)
\* =====================================================================

\* COMMP_V2_PREFIX = [0x01, 0x55, 0x91, 0x20]
COMMP_V2_PREFIX == <<1, 85, 145, 32>>

Err(msg) == [kind |-> "error", message |-> msg]
Ok(v) == [kind |-> "ok", value |-> v]

\* data[offset] of a Uint8Array, offsets counted from 0; -1 stands for undefined.
At(data, offset) == IF offset >= 0 /\ offset < Len(data) THEN data[offset + 1] ELSE -1

\* x & 0x7f ; undefined & 0x7f is 0
Low7(x) == IF x < 0 THEN 0 ELSE x % 128

\* 1n << BigInt(n)
RECURSIVE Shl1(_)
Shl1(n) == IF n <= 0 THEN 1 ELSE 2 * Shl1(n - 1)

\* A string is the sequence of its characters.
HexChars == <<"0", "1", "2", "3", "4", "5", "6", "7", "8", "9", "a", "b", "c", "d", "e", "f">>
HexValue(c) == CHOOSE v \in 0..15 : HexChars[v + 1] = c
IsHexChar(c) == \E v \in 0..15 : HexChars[v + 1] = c

\* out[i] = parseInt(pair, 16) stored in a Uint8Array: parseInt reads the
\* longest prefix of hex digits (after an optional 0x), and NaN is stored as 0.
ParseHexPair(a, b) ==
    IF ~IsHexChar(a) THEN 0
    ELSE IF ~IsHexChar(b) THEN HexValue(a)
    ELSE 16 * HexValue(a) + HexValue(b)

\* hexToBytes(hex): the bytes, or the error thrown on an odd length.
hexToBytes(hex) ==
    LET normalized == IF Len(hex) >= 2 /\ hex[1] = "0" /\ hex[2] = "x"
                      THEN SubSeq(hex, 3, Len(hex)) ELSE hex
    IN  IF Len(normalized) % 2 # 0 THEN Err("Invalid hex: length must be even")
        ELSE Ok([i \in 1..(Len(normalized) \div 2) |->
                    ParseHexPair(normalized[2 * i - 1], normalized[2 * i])])

\* bytesToHex(bytes)
RECURSIVE bytesToHex(_)
bytesToHex(bytes) ==
    IF Len(bytes) = 0 THEN <<"0", "x">>
    ELSE bytesToHex(SubSeq(bytes, 1, Len(bytes) - 1))
             \o <<HexChars[(bytes[Len(bytes)] \div 16) + 1], HexChars[(bytes[Len(bytes)] % 16) + 1]>>

\* A bigint read by readUvarint is kept as its 7-bit groups, least
\* significant first: the value is the sum of groups[k] << 7(k-1), which can
\* exceed every machine integer.
\* The while loop of readUvarint: i and value after the last continuation byte.
\* undefined >= 0x80 is false, so reading past the end stops the loop, and
\* undefined & 0x7f is 0.
RECURSIVE UvarintLoop(_, _, _, _)
UvarintLoop(data, offset, i, value) ==
    IF At(data, offset + i) >= 128
    THEN UvarintLoop(data, offset, i + 1, Append(value, Low7(At(data, offset + i + 1))))
    ELSE <<value, offset + i + 1>>

\* readUvarint(data, offset) = [value, nextOffset]
readUvarint(data, offset) == UvarintLoop(data, offset, 0, <<Low7(At(data, offset))>>)

\* The value is below 2^28: every group from the fifth on is 0.
IsSmallBigInt(value) == \A k \in 1..Len(value) : k > 4 => value[k] = 0

\* Number(value) of a bigint below 2^28.
RECURSIVE Number(_)
Number(value) ==
    IF \A k \in 1..Len(value) : value[k] = 0 THEN 0
    ELSE value[1] + 128 * Number(Tail(value))

\* Number.isSafeInteger(Number(value)): the value is below 2^53 = 16 * 128^7.
isSafeInteger(value) ==
    \A k \in 1..Len(value) : (k = 8 => value[k] < 16) /\ (k > 8 => value[k] = 0)

RECURSIVE PrefixMismatch(_, _)
PrefixMismatch(cidBytes, i) ==
    IF i >= 4 THEN FALSE
    ELSE IF At(cidBytes, i) # COMMP_V2_PREFIX[i + 1] THEN TRUE
    ELSE PrefixMismatch(cidBytes, i + 1)

RECURSIVE PrefixMismatch3(_, _)
PrefixMismatch3(cidBytes, i) ==
    IF i >= 3 THEN FALSE
    ELSE IF At(cidBytes, i) # COMMP_V2_PREFIX[i + 1] THEN TRUE
    ELSE PrefixMismatch3(cidBytes, i + 1)

\* Mutant: the length check and the loop stop one byte early.
validateCommPv2Prefix_ThreeBytes(cidBytes) ==
    IF Len(cidBytes) < 3 THEN Err("Cid data is too short")
    ELSE IF PrefixMismatch3(cidBytes, 0) THEN Err("Cid must be CommPv2 (bad prefix)")
    ELSE Ok("void")

\* validateCommPv2Prefix: returns void or throws.
validateCommPv2Prefix(cidBytes) ==
    IF Len(cidBytes) < 4 THEN Err("Cid data is too short")
    ELSE IF PrefixMismatch(cidBytes, 0) THEN Err("Cid must be CommPv2 (bad prefix)")
    ELSE Ok("void")

\* cidBytes.slice(from, to)
Slice(data, from, to) ==
    LET hi == IF to > Len(data) THEN Len(data) ELSE to
    IN  IF hi <= from THEN <<>> ELSE [k \in 1..(hi - from) |-> data[from + k]]

\* Mutant: the declared multihash length is not compared with the data length.
parseCommPFromCidBytes_NoLengthMatch(cidBytes) ==
    LET v == validateCommPv2Prefix(cidBytes)
        mh == readUvarint(cidBytes, 4)
        pad == readUvarint(cidBytes, mh[2])
        offset == pad[2] + 1
    IN  IF v.kind = "error" THEN v
        ELSE IF ~isSafeInteger(mh[1]) THEN Err("Multihash length is not a safe integer")
        ELSE IF IsSmallBigInt(mh[1]) /\ Number(mh[1]) < 34
             THEN Err("CommPv2 multihash length must be at least 34")
        ELSE IF pad[2] >= Len(cidBytes) THEN Err("Cid data is too short for height")
        ELSE IF Len(cidBytes) - offset < 32 THEN Err("Cid data is too short for digest")
        ELSE Ok([padding |-> Number(pad[1]), height |-> At(cidBytes, pad[2]),
                 digestOffset |-> offset, digest |-> Slice(cidBytes, offset, offset + 32)])

\* parseCommPFromCidBytes: the parsed record or the thrown error.
\* A safe multihash length of 2^28 or more is neither below 34 nor equal to
\* the distance to the end of an identifier of the modelled lengths.
\* padding is the bigint's number; the modelled identifiers that reach the
\* padding carry one below 2^28.
parseCommPFromCidBytes(cidBytes) ==
    LET v == validateCommPv2Prefix(cidBytes)
        mh == readUvarint(cidBytes, 4)
        mhLengthBig == mh[1]
        afterMhLen == mh[2]
        pad == readUvarint(cidBytes, afterMhLen)
        padding == Number(pad[1])
        afterPadding == pad[2]
        height == At(cidBytes, afterPadding)
        offset == afterPadding + 1
        remaining == Len(cidBytes) - offset
    IN  IF v.kind = "error" THEN v
        ELSE IF ~isSafeInteger(mhLengthBig) THEN Err("Multihash length is not a safe integer")
        ELSE IF IsSmallBigInt(mhLengthBig) /\ Number(mhLengthBig) < 34
             THEN Err("CommPv2 multihash length must be at least 34")
        ELSE IF ~IsSmallBigInt(mhLengthBig) \/ afterMhLen + Number(mhLengthBig) # Len(cidBytes)
             THEN Err("CommPv2 multihash length does not match data length")
        ELSE IF afterPadding >= Len(cidBytes) THEN Err("Cid data is too short for height")
        ELSE IF remaining < 32 THEN Err("Cid data is too short for digest")
        ELSE Ok([padding |-> padding, height |-> height, digestOffset |-> offset,
                 digest |-> Slice(cidBytes, offset, offset + 32)])

\* isPaddingExcessive(padding, height)
isPaddingExcessive(padding, height) ==
    LET expandedPadding == (128 * padding) \div 127
        capacity == Shl1(height + 5)
    IN  expandedPadding >= capacity

computePieceSizeBytes_InverseRatio(padding, height) ==
    LET size == Shl1(height + 5) - (127 * padding) \div 128
    IN  IF size >= 0 THEN size ELSE 0

computePieceSizeBytes_NoClamp(padding, height) ==
    Shl1(height + 5) - (128 * padding) \div 127

\* computePieceSizeBytes(padding, height)
computePieceSizeBytes(padding, height) ==
    LET capacity == Shl1(height + 5)
        expandedPadding == (128 * padding) \div 127
        size == capacity - expandedPadding
    IN  IF size >= 0 THEN size ELSE 0

\* x >> 5n for x >= 0
Shr5(x) == x \div 32

\* Mutant: the leaves are counted as bytes.
computeLeafCount_PerByte(padding, height) ==
    LET withData == Shl1(height + 5) - Shr5((128 * padding) \div 127)
    IN  IF withData >= 0 THEN withData ELSE 0

\* computeLeafCount(padding, height)
computeLeafCount(padding, height) ==
    LET paddingLeafs == Shr5((128 * padding) \div 127)
        totalLeaves == Shl1(height)
        withData == totalLeaves - paddingLeafs
    IN  IF withData >= 0 THEN withData ELSE 0

\* getPieceInfoFromCidBytes(input): input is a hex string or a Uint8Array.
\* The result is the info record, or the error hexToBytes or
\* parseCommPFromCidBytes threw.  sizeKiB, sizeMiB and sizeGiB are sizeBytes
\* divided by a constant in floating point and are left out of the record.
getPieceInfoFromCidBytes(input) ==
    LET bytes == IF input.type = "string" THEN hexToBytes(input.value) ELSE Ok(input.value)
        parsed == parseCommPFromCidBytes(bytes.value)
    IN  IF bytes.kind = "error" THEN bytes
        ELSE IF parsed.kind = "error" THEN parsed
        ELSE Ok([padding |-> parsed.value.padding,
                 height |-> parsed.value.height,
                 digestHex |-> bytesToHex(parsed.value.digest),
                 sizeBytes |-> computePieceSizeBytes(parsed.value.padding, parsed.value.height),
                 leafCount |-> computeLeafCount(parsed.value.padding, parsed.value.height),
                 isPaddingExcessive |-> isPaddingExcessive(parsed.value.padding, parsed.value.height)])

\* =====================================================================
\* Storage-economics engine (src/utils/storageCalculations.ts)
\* =====================================================================

\* A Decimal that is a quotient, or Infinity: new Decimal(Infinity) has inf.
RECURSIVE GCD(_, _)
GCD(a, b) == IF b = 0 THEN a ELSE GCD(b, a % b)

Infinity == [inf |-> TRUE, num |-> 1, den |-> 0]
\* allowance.div(rate) with rate > 0, kept as the exact quotient in lowest terms
Quotient(n, d) ==
    LET g == GCD(n, d)
    IN  [inf |-> FALSE, num |-> n \div g, den |-> d \div g]

calculatePersistenceDays_ZeroOnZeroRate(lockupAllowance, dailyBurnRate) ==
    IF dailyBurnRate = 0 THEN Quotient(0, 1) ELSE Quotient(lockupAllowance, dailyBurnRate)

\* calculatePersistenceDays(lockupAllowance, dailyBurnRate)
calculatePersistenceDays(lockupAllowance, dailyBurnRate) ==
    IF dailyBurnRate = 0 THEN Infinity ELSE Quotient(lockupAllowance, dailyBurnRate)

\* calculatePersistenceMetrics(remainingLockup, newDailyLockupRate, currentDailyLockupRate)
\* d.isFinite() ? d.toNumber() : Infinity
calculatePersistenceMetrics(remainingLockup, newDailyLockupRate, currentDailyLockupRate) ==
    LET daysLeft == calculatePersistenceDays(remainingLockup, newDailyLockupRate)
        daysAtCurrentRate == calculatePersistenceDays(remainingLockup, currentDailyLockupRate)
    IN  [daysLeft |-> IF ~daysLeft.inf THEN daysLeft ELSE Infinity,
         daysLeftAtCurrentRate |-> IF ~daysAtCurrentRate.inf THEN daysAtCurrentRate ELSE Infinity]

\* calculateRemainingLockupAllowance(currentLockupAllowance, currentLockupUsed)
calculateRemainingLockupAllowance(currentLockupAllowance, currentLockupUsed) ==
    IF currentLockupAllowance > currentLockupUsed
    THEN currentLockupAllowance - currentLockupUsed
    ELSE 0

\* calculateDailyLockupRate(ratePerEpoch, epochsPerDay)
calculateDailyLockupRate(ratePerEpoch, epochsPerDay) == ratePerEpoch * epochsPerDay

\* A JavaScript number holding a day count: an integer, or NaN.
Num(v) == [nan |-> FALSE, v |-> v]
NaN == [nan |-> TRUE, v |-> 0]

calculateStorageSufficiency_RateOnly(currentRateAllowance, currentRateUsed, newRateNeeded, remainingLockup, dailyLockupRate, minDaysThreshold, isAdditionalStorage) ==
    LET totalRate == IF isAdditionalStorage THEN currentRateUsed + newRateNeeded
                     ELSE newRateNeeded
        isRateSufficient == currentRateAllowance >= totalRate
        isLockupSufficient == ~minDaysThreshold.nan /\ remainingLockup >= dailyLockupRate * minDaysThreshold.v
    IN  [isRateSufficient |-> isRateSufficient,
         isLockupSufficient |-> isLockupSufficient,
         isSufficient |-> isRateSufficient,
         totalRateNeeded |-> totalRate]

calculateStorageSufficiency_AlwaysAdds(currentRateAllowance, currentRateUsed, newRateNeeded, remainingLockup, dailyLockupRate, minDaysThreshold, isAdditionalStorage) ==
    LET totalRate == currentRateUsed + newRateNeeded
        isRateSufficient == currentRateAllowance >= totalRate
        isLockupSufficient == ~minDaysThreshold.nan /\ remainingLockup >= dailyLockupRate * minDaysThreshold.v
    IN  [isRateSufficient |-> isRateSufficient,
         isLockupSufficient |-> isLockupSufficient,
         isSufficient |-> isRateSufficient /\ isLockupSufficient,
         totalRateNeeded |-> totalRate]

calculateStorageSufficiency_StrictLockup(currentRateAllowance, currentRateUsed, newRateNeeded, remainingLockup, dailyLockupRate, minDaysThreshold, isAdditionalStorage) ==
    LET totalRate == IF isAdditionalStorage THEN currentRateUsed + newRateNeeded
                     ELSE newRateNeeded
        isRateSufficient == currentRateAllowance >= totalRate
        isLockupSufficient == ~minDaysThreshold.nan /\ remainingLockup > dailyLockupRate * minDaysThreshold.v
    IN  [isRateSufficient |-> isRateSufficient,
         isLockupSufficient |-> isLockupSufficient,
         isSufficient |-> isRateSufficient /\ isLockupSufficient,
         totalRateNeeded |-> totalRate]

\* calculateStorageSufficiency: isAdditionalStorage is used as a condition.
\* dailyRate.mul(NaN) is the Decimal NaN, and lockup.gte(NaN) is false.
calculateStorageSufficiency(currentRateAllowance, currentRateUsed, newRateNeeded, remainingLockup, dailyLockupRate, minDaysThreshold, isAdditionalStorage) ==
    LET totalRate == IF isAdditionalStorage THEN currentRateUsed + newRateNeeded
                     ELSE newRateNeeded
        minLockup == dailyLockupRate * minDaysThreshold.v
        isRateSufficient == currentRateAllowance >= totalRate
        isLockupSufficient == ~minDaysThreshold.nan /\ remainingLockup >= minLockup
    IN  [isRateSufficient |-> isRateSufficient,
         isLockupSufficient |-> isLockupSufficient,
         isSufficient |-> isRateSufficient /\ isLockupSufficient,
         totalRateNeeded |-> totalRate]

calculateTotalStorageRequirements_ProjectedOnly(currentLockupUsed, currentLockupAllowance, currentRateUsed, currentRateAllowance, newRateNeeded, dailyLockupRate, persistencePeriodDays, currentBalance) ==
    LET storageCost == newRateNeeded * persistencePeriodDays.v * EPOCHS_PER_DAY
    IN  IF persistencePeriodDays.nan THEN Err(<<"SyntaxError: Cannot convert NaN to a BigInt">>)
        ELSE
        [totalDepositNeeded |-> IF currentBalance >= storageCost THEN 0
                                ELSE storageCost - currentBalance,
         totalLockupNeeded |-> currentLockupUsed + dailyLockupRate * persistencePeriodDays.v,
         totalRateNeeded |-> newRateNeeded + currentRateUsed]

\* calculateTotalStorageRequirements: for an integer number of days
\* BigInt(persistencePeriodDays.toFixed(0)) is that integer; NaN.toFixed(0)
\* is the string "NaN", which BigInt rejects with a SyntaxError.
calculateTotalStorageRequirements(currentLockupUsed, currentLockupAllowance, currentRateUsed, currentRateAllowance, newRateNeeded, dailyLockupRate, persistencePeriodDays, currentBalance) ==
    LET storageCost == newRateNeeded * persistencePeriodDays.v * EPOCHS_PER_DAY
        depositNeeded == IF currentBalance >= storageCost THEN 0
                         ELSE storageCost - currentBalance
        persistenceCost == dailyLockupRate * persistencePeriodDays.v
        projectedLockup == currentLockupUsed + persistenceCost
        lockupNeeded == IF projectedLockup > currentLockupAllowance THEN projectedLockup
                        ELSE currentLockupAllowance
        totalRate == newRateNeeded + currentRateUsed
        rateNeeded == IF totalRate > currentRateAllowance THEN totalRate
                      ELSE currentRateAllowance
    IN  IF persistencePeriodDays.nan THEN Err(<<"SyntaxError: Cannot convert NaN to a BigInt">>)
        ELSE
        [totalDepositNeeded |-> depositNeeded,
         totalLockupNeeded |-> lockupNeeded,
         totalRateNeeded |-> rateNeeded]

\* =====================================================================
\* calculateStorageMetrics (src/utils/calculateStorageMetrics.ts)
\* =====================================================================

\* A thrown Error: its message is the sequence of its parts, so that a
\* wrapped message contains the message it wraps.
Wrap(prefix, error) ==
    Err(<<prefix>> \o (IF error.kind = "error" THEN error.message ELSE <<"Unknown error">>))

\* What the failing collaborator call rejects with: an Error whose message
\* names the call, or a value that is not an Error.
Rejection(c, fault) ==
    IF c.rejectsWithError THEN Err(<<fault>>) ELSE [kind |-> "thrown", value |-> fault]

\* What a destructured property that the object does not have evaluates to.
Undefined == "undefined"

\* A bigint used as a condition: 0n is falsy, every other bigint truthy.
BigIntTruthy(n) == n # 0

\* getDatasetsSizeInfo(datasets, synapse): the size record of each dataset,
\* or the empty object when there is no dataset or a PDPVerifier call fails.
getDatasetsSizeInfo(datasets, lookupFails) ==
    IF Len(datasets) = 0 THEN <<>>
    ELSE IF lookupFails THEN <<>>
    ELSE [i \in DOMAIN datasets |->
             [leafCount |-> datasets[i].leafCount,
              withCDN |-> datasets[i].withCDN,
              sizeInBytes |-> datasets[i].leafCount * LEAF_SIZE]]

RECURSIVE SumBytes(_, _)
SumBytes(info, I) ==
    IF I = {} THEN 0
    ELSE LET i == CHOOSE x \in I : TRUE
         IN  info[i].sizeInBytes + SumBytes(info, I \ {i})

\* datasetsStorageInfo(synapse, config): the totals, or the error it throws
\* when findDataSets fails.
datasetsStorageInfo(c, fault) ==
    IF fault = "findDataSets"
    THEN Wrap("Failed to fetch datasets storage info: ", Rejection(c, fault))
    ELSE LET datasetsSizeInfo == getDatasetsSizeInfo(c.datasets, fault = "getDatasetsSizeInfo")
             cdn == {i \in DOMAIN datasetsSizeInfo : datasetsSizeInfo[i].withCDN}
             nonCdn == {i \in DOMAIN datasetsSizeInfo : ~datasetsSizeInfo[i].withCDN}
             cdnCount == Cardinality(cdn)
             nonCdnCount == Cardinality(nonCdn)
             includeDatasetCreationFee ==
                 IF c.config.withCDN THEN cdnCount = 0 ELSE nonCdnCount = 0
         IN  Ok([currentStorageBytes |-> SumBytes(datasetsSizeInfo, DOMAIN datasetsSizeInfo),
                 currentStorageGB |->
                     Quotient(SumBytes(datasetsSizeInfo, DOMAIN datasetsSizeInfo), GiB),
                 cdnUsedGiB |-> Quotient(SumBytes(datasetsSizeInfo, cdn), GiB),
                 nonCdnUsedGiB |-> Quotient(SumBytes(datasetsSizeInfo, nonCdn), GiB),
                 dataSetCreationFee |->
                     IF includeDatasetCreationFee THEN DATA_SET_CREATION_FEE ELSE 0,
                 totalDatasets |-> Len(c.datasets)])

\* calculateRateAllowanceGB of warmStorageUtils (bigint arithmetic): throws a
\* RangeError when the price is 0n.  The code floors the capacity to whole
\* bytes before dividing by GiB; the model keeps the quotient exact.
calculateRateAllowanceGB(rateAllowance, pricePerTBPerMonth) ==
    IF pricePerTBPerMonth = 0 THEN Err(<<"Division by zero">>)
    ELSE Ok(Quotient(rateAllowance * EPOCHS_PER_MONTH * GiBPerTiB, pricePerTBPerMonth))

\* A Decimal that is not a number: zero divided by zero.
DecimalNaN == [inf |-> FALSE, num |-> 0, den |-> 0]

\* calculateStorageCapacityGB: the GiB a rate allowance pays for, 0 when
\* the price is zero.
calculateStorageCapacityGB(rateAllowance, pricePerTiBPerMonth, epochsPerMonth) ==
    IF pricePerTiBPerMonth = 0 THEN Quotient(0, 1)
    ELSE Quotient(rateAllowance * epochsPerMonth * GiBPerTiB, pricePerTiBPerMonth)

\* calculateRateAllowanceGB in Decimal arithmetic: Decimal division by zero
\* gives Infinity for a positive dividend and NaN for a zero dividend.
calculateRateAllowanceGB_Decimal(rateAllowance, pricePerTBPerMonth) ==
    IF pricePerTBPerMonth = 0
    THEN IF rateAllowance = 0 THEN DecimalNaN ELSE Infinity
    ELSE Quotient(rateAllowance * EPOCHS_PER_MONTH * GiBPerTiB, pricePerTBPerMonth)

\* calculateStorageMetrics(synapse, config, fileSize): the report it resolves
\* with, or the error it rejects with.  c holds what the collaborators answer
\* (c.fault among them) and fault names the collaborator call that fails, if any.
\* calculateStorageSufficiency is called with eight arguments and has seven
\* parameters: dataSetCreationFee lands in isAdditionalStorage and isFileUpload
\* is dropped.  calculateTotalStorageRequirements is called with ten
\* arguments and has eight parameters: dataSetCreationFee lands in
\* currentBalance, and storageBalance and depositAmountNeeded are dropped.
calculateStorageMetrics(c, fault) ==
    LET w == c.warmStorageBalance
        storageInfoResult == datasetsStorageInfo(c, fault)
        storageInfo == storageInfoResult.value
        rateNeeded == w.perEpoch
        lockupPerDay == calculateDailyLockupRate(rateNeeded, EPOCHS_PER_DAY)
        lockupPerDayAtCurrentRate == calculateDailyLockupRate(w.currentRateUsed, EPOCHS_PER_DAY)
        currentLockupRemaining ==
            calculateRemainingLockupAllowance(w.currentLockupAllowance, w.currentLockupUsed)
        isFileUpload == c.fileSizeGiven
        sufficiency ==
            calculateStorageSufficiency(w.currentRateAllowance, w.currentRateUsed, rateNeeded,
                                        currentLockupRemaining, lockupPerDay,
                                        Num(c.config.minDaysThreshold),
                                        BigIntTruthy(storageInfo.dataSetCreationFee))
        currentRateAllowanceGB == calculateRateAllowanceGB(w.currentRateAllowance, c.price)
        storageBalance == c.storageBalance
        requirements ==
            calculateTotalStorageRequirements(w.currentLockupUsed, w.currentLockupAllowance,
                                              w.currentRateUsed, w.currentRateAllowance,
                                              rateNeeded, lockupPerDay,
                                              Num(c.config.persistencePeriod),
                                              storageInfo.dataSetCreationFee)
        failed(e) == Wrap("Failed to calculate storage metrics: ", e)
    IN  IF fault \in {"fetchWarmStorageCosts", "fetchWarmStorageBalanceData"}
        THEN failed(Rejection(c, fault))
        ELSE IF storageInfoResult.kind = "error" THEN failed(storageInfoResult)
        ELSE IF currentRateAllowanceGB.kind = "error" THEN failed(currentRateAllowanceGB)
        ELSE IF fault = "balance" THEN failed(Rejection(c, fault))
        ELSE Ok([rateNeeded |-> requirements.totalRateNeeded,
                 rateUsed |-> w.currentRateUsed,
                 currentStorageBytes |-> storageInfo.currentStorageBytes,
                 currentStorageGB |-> storageInfo.currentStorageGB,
                 cdnUsedGiB |-> storageInfo.cdnUsedGiB,
                 nonCdnUsedGiB |-> storageInfo.nonCdnUsedGiB,
                 totalLockupNeeded |-> requirements.totalLockupNeeded,
                 depositNeeded |-> requirements.totalDepositNeeded,
                 persistenceDaysLeft |-> Undefined,
                 persistenceDaysLeftAtCurrentRate |-> Undefined,
                 isRateSufficient |-> sufficiency.isRateSufficient,
                 isLockupSufficient |-> sufficiency.isLockupSufficient,
                 isSufficient |-> sufficiency.isSufficient,
                 currentRateAllowanceGB |-> currentRateAllowanceGB.value,
                 currentLockupAllowance |-> w.currentLockupAllowance,
                 totalDatasets |-> storageInfo.totalDatasets])

\* calculateStorageMetrics of src/unnamed/part_009, the variant that works from
\* the account's available funds and the per-day price.  An allowance is
\* compared with MAX_UINT256 / 2 only, so c says whether it reaches that
\* value; MAX_UINT256 itself is kept as a name.  daysLeft is a quotient of
\* two Numbers and is kept exact.  No failure is caught: a rejected
\* collaborator call rejects the function with the same error.
MAX_UINT256 == "MAX_UINT256"

calculateStorageMetrics_part_009(c, fault) ==
    LET availableFunds == c.availableFunds
        currentMonthlyRate == c.rateUsed * EPOCHS_PER_MONTH
        currentDailyRate == c.rateUsed * EPOCHS_PER_DAY
        daysLeft == Quotient(availableFunds, c.perDay)
        daysLeftAtCurrentRate ==
            IF currentDailyRate = 0 THEN Infinity ELSE Quotient(availableFunds, currentDailyRate)
        amountNeeded == c.perDay * c.config.persistencePeriod
        daysLeftReachesThreshold == availableFunds >= c.config.minDaysThreshold * c.perDay
        totalDepositNeeded ==
            IF daysLeftReachesThreshold THEN 0 ELSE amountNeeded - availableFunds
        availableToFreeUp ==
            IF availableFunds > amountNeeded THEN availableFunds - amountNeeded ELSE 0
        isRateSufficient == c.rateAllowanceAtLeastHalfMax
        isLockupSufficient == c.lockupAllowanceAtLeastHalfMax
    IN  IF fault # "none" THEN Err(<<fault>>)
        ELSE Ok([rateNeeded |-> MAX_UINT256,
                 depositNeeded |-> totalDepositNeeded,
                 availableToFreeUp |-> availableToFreeUp,
                 lockupNeeded |-> MAX_UINT256,
                 daysLeft |-> daysLeft,
                 daysLeftAtCurrentRate |-> daysLeftAtCurrentRate,
                 isRateSufficient |-> isRateSufficient,
                 isLockupSufficient |-> isLockupSufficient,
                 isSufficient |-> isRateSufficient /\ isLockupSufficient
                                      /\ daysLeftReachesThreshold,
                 currentMonthlyRate |-> currentMonthlyRate,
                 maxMonthlyRate |-> c.perMonth])

\* =====================================================================
\* Specification of the codec: an identifier or a (padding, height) pair is
\* given, and each exported function is applied to it.
\* =====================================================================

Returned(f) == f \in DOMAIN ret
Return(f, v) == ret' = ret @@ (f :> v)

CidAlphabet == {0, 1, 85, 145, 32}

RECURSIVE SeqsUpTo(_, _)
SeqsUpTo(S, n) ==
    IF n = 0 THEN {<<>>}
    ELSE LET shorter == SeqsUpTo(S, n - 1)
         IN  shorter \cup {Append(s, x) : s \in shorter, x \in S}

RECURSIVE Zeros(_)
Zeros(n) == IF n <= 0 THEN <<>> ELSE Append(Zeros(n - 1), 0)

\* Identifiers laid out as prefix, multihash length, padding uvarint, height, digest.
Prefixes == {COMMP_V2_PREFIX, <<1, 85, 145, 33>>, <<0, 85, 145, 32>>, <<1, 112, 145, 32>>}
PaddingEncodings == {<<0>>, <<1>>, <<127>>, <<128, 1>>}
LaidOutCids ==
    {p \o <<mh>> \o pad \o <<h>> \o Zeros(d) :
        p \in Prefixes, mh \in 33..36, pad \in PaddingEncodings, h \in {0, 5}, d \in 31..33}

\* Multihash lengths written with continuation bytes: 34 and 35 in two bytes,
\* and n zero groups under a last group (2^28, 2^53 - 2^49, 2^53, ...).
RECURSIVE Continuations(_)
Continuations(n) == IF n <= 0 THEN <<>> ELSE Append(Continuations(n - 1), 128)

LengthEncodings ==
    {<<162, 0>>, <<163, 0>>}
    \cup {Continuations(n) \o <<last>> : n \in 1..(MaxLengthBytes - 1), last \in {1, 15, 16, 34}}

LongLengthCids ==
    {COMMP_V2_PREFIX \o enc \o <<0, h>> \o Zeros(d) :
        enc \in LengthEncodings, h \in {0, 5}, d \in 31..33}

CidInputs == SeqsUpTo(CidAlphabet, MaxCidLen) \cup LaidOutCids \cup LongLengthCids

\* Hex strings: short strings over a few characters, and the hex form of
\* the byte inputs with and without the 0x.
HexAlphabet == {"0", "1", "5", "x"}
HexInputs ==
    SeqsUpTo(HexAlphabet, MaxHexLen)
    \cup {bytesToHex(b) : b \in CidInputs}
    \cup {SubSeq(bytesToHex(b), 3, 2 * Len(b) + 2) : b \in CidInputs}

InitCid ==
    /\ call \in [fn : {"cid"}, cidBytes : CidInputs]
    /\ ret = NoRet
    /\ chain = NoChain
    /\ report = NoReport
    /\ hook = NoHook
    /\ sent = NoSent

InitHex ==
    /\ call \in [fn : {"hex"}, hex : HexInputs]
    /\ ret = NoRet
    /\ chain = NoChain
    /\ report = NoReport
    /\ hook = NoHook
    /\ sent = NoSent

\* The least padding whose expansion reaches the capacity of the height.
FullPadding(height) == (127 * Shl1(height + 5) + 127) \div 128

PiecePaddings(height) ==
    (0..MaxPadding) \cup
    {p \in (FullPadding(height) - MaxPadding)..(FullPadding(height) + MaxPadding) : p >= 0}

PieceCalls ==
    UNION {{[fn |-> "piece", padding |-> p, height |-> h] : p \in PiecePaddings(h)} :
              h \in 0..MaxHeight}

InitPiece ==
    /\ call \in PieceCalls
    /\ ret = NoRet
    /\ chain = NoChain
    /\ report = NoReport
    /\ hook = NoHook
    /\ sent = NoSent

ValidateCommPv2Prefix ==
    /\ call.fn = "cid"
    /\ ~Returned("validateCommPv2Prefix")
    /\ Return("validateCommPv2Prefix", validateCommPv2Prefix(call.cidBytes))
    /\ UNCHANGED <<call, chain, report, hook, sent>>

ParseCommPFromCidBytes ==
    /\ call.fn = "cid"
    /\ ~Returned("parseCommPFromCidBytes")
    /\ Return("parseCommPFromCidBytes", parseCommPFromCidBytes(call.cidBytes))
    /\ UNCHANGED <<call, chain, report, hook, sent>>

GetPieceInfoFromCidBytes ==
    /\ call.fn = "cid"
    /\ ~Returned("getPieceInfoFromCidBytes")
    /\ Return("getPieceInfoFromCidBytes",
              getPieceInfoFromCidBytes([type |-> "bytes", value |-> call.cidBytes]))
    /\ UNCHANGED <<call, chain, report, hook, sent>>

GetPieceInfoFromHexString ==
    /\ call.fn = "hex"
    /\ ~Returned("getPieceInfoFromCidBytes")
    /\ Return("getPieceInfoFromCidBytes",
              getPieceInfoFromCidBytes([type |-> "string", value |-> call.hex]))
    /\ UNCHANGED <<call, chain, report, hook, sent>>

ComputePieceSizeBytes ==
    /\ call.fn = "piece"
    /\ ~Returned("computePieceSizeBytes")
    /\ Return("computePieceSizeBytes", computePieceSizeBytes(call.padding, call.height))
    /\ UNCHANGED <<call, chain, report, hook, sent>>

IsPaddingExcessive ==
    /\ call.fn = "piece"
    /\ ~Returned("isPaddingExcessive")
    /\ Return("isPaddingExcessive", isPaddingExcessive(call.padding, call.height))
    /\ UNCHANGED <<call, chain, report, hook, sent>>

ComputeLeafCount ==
    /\ call.fn = "piece"
    /\ ~Returned("computeLeafCount")
    /\ Return("computeLeafCount", computeLeafCount(call.padding, call.height))
    /\ UNCHANGED <<call, chain, report, hook, sent>>

InitCodec == InitCid \/ InitHex \/ InitPiece

NextCodec ==
    \/ ValidateCommPv2Prefix
    \/ ParseCommPFromCidBytes
    \/ GetPieceInfoFromCidBytes
    \/ GetPieceInfoFromHexString
    \/ ComputePieceSizeBytes
    \/ IsPaddingExcessive
    \/ ComputeLeafCount

SpecCodec == InitCodec /\ [][NextCodec]_vars

\* =====================================================================
\* Specification of the engine's pure functions: arguments are given and
\* the function is applied to them.
\* =====================================================================

Amounts == 0..MaxAmount
Days == 0..MaxDays
Balances == UNION {{k * EPOCHS_PER_DAY, k * EPOCHS_PER_DAY + 1} : k \in 0..MaxBalanceDays}

\* Scenario B: allowance 100, used 80, new rate 30, additional storage.
ScenarioB ==
    [fn |-> "sufficiency", currentRateAllowance |-> 100, currentRateUsed |-> 80,
     newRateNeeded |-> 30, remainingLockup |-> 0, dailyLockupRate |-> 0,
     minDaysThreshold |-> 1, isAdditionalStorage |-> TRUE]

\* Scenario C: remaining lockup 0, daily lockup rate 5, any positive threshold.
ScenarioC ==
    {[fn |-> "sufficiency", currentRateAllowance |-> 1, currentRateUsed |-> 0,
      newRateNeeded |-> 1, remainingLockup |-> 0, dailyLockupRate |-> 5,
      minDaysThreshold |-> d, isAdditionalStorage |-> FALSE] : d \in 1..(MaxDays + 1)}

SufficiencyCalls ==
    [fn : {"sufficiency"}, currentRateAllowance : Amounts, currentRateUsed : Amounts,
     newRateNeeded : Amounts, remainingLockup : Amounts, dailyLockupRate : Amounts,
     minDaysThreshold : Days, isAdditionalStorage : BOOLEAN]
    \cup {ScenarioB} \cup ScenarioC

RequirementsCalls ==
    [fn : {"requirements"}, currentLockupUsed : Amounts, currentLockupAllowance : Amounts,
     currentRateUsed : Amounts, currentRateAllowance : Amounts, newRateNeeded : Amounts,
     dailyLockupRate : Amounts, persistencePeriodDays : Days, currentBalance : Balances]

\* A day count that is not a valid configuration value: NaN or negative.
InvalidNumbers == {NaN} \cup {Num(0 - d) : d \in 1..MaxDays}

\* calculateStorageSufficiency with an invalid minDaysThreshold.
InvalidThresholdCalls ==
    [fn : {"invalidThreshold"}, currentRateAllowance : Amounts, currentRateUsed : Amounts,
     newRateNeeded : Amounts, remainingLockup : Amounts, dailyLockupRate : Amounts,
     minDaysThreshold : InvalidNumbers, isAdditionalStorage : BOOLEAN]

\* calculateTotalStorageRequirements with an invalid persistencePeriodDays.
InvalidPeriodCalls ==
    [fn : {"invalidPeriod"}, currentLockupUsed : Amounts, currentLockupAllowance : Amounts,
     currentRateUsed : Amounts, currentRateAllowance : Amounts, newRateNeeded : Amounts,
     dailyLockupRate : Amounts, persistencePeriodDays : InvalidNumbers,
     currentBalance : Balances]

\* The capacity functions: a rate allowance and a price per TiB per month.
CapacityCalls ==
    [fn : {"capacity"}, rateAllowance : Amounts, pricePerTBPerMonth : Amounts,
     epochsPerMonth : {EPOCHS_PER_MONTH}]

PersistenceCalls ==
    [fn : {"persistence"}, remainingLockup : 0..MaxLockup,
     newDailyLockupRate : 0..MaxLockup, currentDailyLockupRate : 0..MaxLockup]

InitSufficiency ==
    /\ call \in SufficiencyCalls
    /\ ret = NoRet /\ chain = NoChain /\ report = NoReport
    /\ hook = NoHook /\ sent = NoSent

InitRequirements ==
    /\ call \in RequirementsCalls
    /\ ret = NoRet /\ chain = NoChain /\ report = NoReport
    /\ hook = NoHook /\ sent = NoSent

InitInvalidConfig ==
    /\ call \in InvalidThresholdCalls \cup InvalidPeriodCalls
    /\ ret = NoRet /\ chain = NoChain /\ report = NoReport
    /\ hook = NoHook /\ sent = NoSent

InitCapacity ==
    /\ call \in CapacityCalls
    /\ ret = NoRet /\ chain = NoChain /\ report = NoReport
    /\ hook = NoHook /\ sent = NoSent

InitPersistence ==
    /\ call \in PersistenceCalls
    /\ ret = NoRet /\ chain = NoChain /\ report = NoReport
    /\ hook = NoHook /\ sent = NoSent

CalculateStorageSufficiency ==
    /\ call.fn \in {"sufficiency", "invalidThreshold"}
    /\ ~Returned("calculateStorageSufficiency")
    /\ Return("calculateStorageSufficiency",
              calculateStorageSufficiency(call.currentRateAllowance, call.currentRateUsed,
                                          call.newRateNeeded, call.remainingLockup,
                                          call.dailyLockupRate,
                                          IF call.fn = "sufficiency"
                                          THEN Num(call.minDaysThreshold)
                                          ELSE call.minDaysThreshold,
                                          call.isAdditionalStorage))
    /\ UNCHANGED <<call, chain, report, hook, sent>>

CalculateTotalStorageRequirements ==
    /\ call.fn \in {"requirements", "invalidPeriod"}
    /\ ~Returned("calculateTotalStorageRequirements")
    /\ Return("calculateTotalStorageRequirements",
              calculateTotalStorageRequirements(call.currentLockupUsed,
                                                call.currentLockupAllowance,
                                                call.currentRateUsed,
                                                call.currentRateAllowance,
                                                call.newRateNeeded, call.dailyLockupRate,
                                                IF call.fn = "requirements"
                                                THEN Num(call.persistencePeriodDays)
                                                ELSE call.persistencePeriodDays,
                                                call.currentBalance))
    /\ UNCHANGED <<call, chain, report, hook, sent>>

CalculateStorageCapacityGB ==
    /\ call.fn = "capacity"
    /\ ~Returned("calculateStorageCapacityGB")
    /\ Return("calculateStorageCapacityGB",
              calculateStorageCapacityGB(call.rateAllowance, call.pricePerTBPerMonth,
                                         call.epochsPerMonth))
    /\ UNCHANGED <<call, chain, report, hook, sent>>

CalculateRateAllowanceGB_Decimal ==
    /\ call.fn = "capacity"
    /\ ~Returned("calculateRateAllowanceGB_Decimal")
    /\ Return("calculateRateAllowanceGB_Decimal",
              calculateRateAllowanceGB_Decimal(call.rateAllowance, call.pricePerTBPerMonth))
    /\ UNCHANGED <<call, chain, report, hook, sent>>

CalculateRateAllowanceGB ==
    /\ call.fn = "capacity"
    /\ ~Returned("calculateRateAllowanceGB")
    /\ Return("calculateRateAllowanceGB",
              calculateRateAllowanceGB(call.rateAllowance, call.pricePerTBPerMonth))
    /\ UNCHANGED <<call, chain, report, hook, sent>>

CalculatePersistenceMetrics ==
    /\ call.fn = "persistence"
    /\ ~Returned("calculatePersistenceMetrics")
    /\ Return("calculatePersistenceMetrics",
              calculatePersistenceMetrics(call.remainingLockup, call.newDailyLockupRate,
                                          call.currentDailyLockupRate))
    /\ UNCHANGED <<call, chain, report, hook, sent>>

InitEngine ==
    InitSufficiency \/ InitRequirements \/ InitInvalidConfig \/ InitCapacity \/ InitPersistence

NextEngine ==
    \/ CalculateStorageSufficiency
    \/ CalculateTotalStorageRequirements
    \/ CalculateStorageCapacityGB
    \/ CalculateRateAllowanceGB_Decimal
    \/ CalculateRateAllowanceGB
    \/ CalculatePersistenceMetrics

SpecEngine == InitEngine /\ [][NextEngine]_vars

\* =====================================================================
\* Specification of calculateStorageMetrics: the wallet's on-chain figures,
\* the price and the configuration are given; the function runs once and
\* any one collaborator call may fail.
\* =====================================================================

Rates == 0..MaxRate
Lockups == {k * EPOCHS_PER_DAY : k \in 0..MaxLockupDays}
Periods == 1..MaxPeriod
Prices == {0, 1}
DatasetLists ==
    {<<>>,
     <<[withCDN |-> TRUE, leafCount |-> 1]>>,
     <<[withCDN |-> FALSE, leafCount |-> 1]>>,
     <<[withCDN |-> TRUE, leafCount |-> 1], [withCDN |-> FALSE, leafCount |-> 2]>>}
Faults == {"none", "fetchWarmStorageCosts", "fetchWarmStorageBalanceData",
           "findDataSets", "getDatasetsSizeInfo", "balance"}

Chains ==
    [kind : {"chain"},
     config : [persistencePeriod : Periods, minDaysThreshold : Periods, withCDN : BOOLEAN],
     fileSizeGiven : BOOLEAN,
     price : Prices,
     warmStorageBalance :
         [perEpoch : Rates, currentRateUsed : Rates, currentRateAllowance : Rates,
          currentLockupAllowance : Lockups, currentLockupUsed : Lockups],
     datasets : DatasetLists,
     storageBalance : Lockups,
     fault : Faults,
     rejectsWithError : BOOLEAN]

InitMetrics ==
    /\ chain \in Chains
    /\ report = NoReport
    /\ call = NoCall
    /\ ret = NoRet
    /\ hook = NoHook
    /\ sent = NoSent

CalculateStorageMetrics ==
    /\ chain.kind = "chain"
    /\ report.kind = "none"
    /\ report' = calculateStorageMetrics(chain, chain.fault)
    /\ UNCHANGED <<call, ret, chain, hook, sent>>

\* What the collaborators answer to the variant of src/unnamed/part_009.
Chains_part_009 ==
    [kind : {"part_009"},
     config : [persistencePeriod : Periods, minDaysThreshold : Periods],
     availableFunds : 0..MaxFunds,
     perDay : 1..MaxPerDay,
     perMonth : 1..MaxPerDay,
     rateUsed : Rates,
     rateAllowanceAtLeastHalfMax : BOOLEAN,
     lockupAllowanceAtLeastHalfMax : BOOLEAN,
     fault : {"none", "accountInfo"}]

InitMetrics_part_009 ==
    /\ chain \in Chains_part_009
    /\ report = NoReport
    /\ call = NoCall
    /\ ret = NoRet
    /\ hook = NoHook
    /\ sent = NoSent

CalculateStorageMetrics_part_009 ==
    /\ chain.kind = "part_009"
    /\ report.kind = "none"
    /\ report' = calculateStorageMetrics_part_009(chain, chain.fault)
    /\ UNCHANGED <<call, ret, chain, hook, sent>>

NextMetrics == CalculateStorageMetrics \/ CalculateStorageMetrics_part_009

SpecMetrics == (InitMetrics \/ InitMetrics_part_009) /\ [][NextMetrics]_vars

\* =====================================================================
\* Specification of the flows that use the engine: one upload attempt after
\* another in useFileUpload (src/hooks/useFileUpload.ts), and the payment
\* button of the storage manager (PaymentActions.tsx, useBalances.ts).
\* hook holds the React state (progress, uploadedInfo), the status of the
\* TanStack mutation and pc, the await the running function is suspended at.
\* sent lists the operations invoked in the current attempt.
\* =====================================================================

Event(op, args) == [op |-> op, args |-> args]

\* What the collaborators answer in a flow.
FlowChains(fileSizeGiven) ==
    [kind : {"chain"},
     config : [persistencePeriod : {1}, minDaysThreshold : {1}, withCDN : {FALSE}],
     fileSizeGiven : {fileSizeGiven},
     price : {1},
     warmStorageBalance :
         [perEpoch : Rates, currentRateUsed : {0}, currentRateAllowance : Rates,
          currentLockupAllowance : Lockups, currentLockupUsed : {0}],
     datasets : {<<>>, <<[withCDN |-> FALSE, leafCount |-> 1]>>},
     storageBalance : {0},
     fault : {"none", "fetchWarmStorageCosts"},
     rejectsWithError : {TRUE}]

HookInit(flow, pc) ==
    [flow |-> flow, mutation |-> "idle", pc |-> pc, progress |-> 0, uploadedInfo |-> FALSE,
     sdkPhase |-> 0, transactionSuccess |-> FALSE, serverConfirmed |-> FALSE]

InitUpload ==
    /\ hook = HookInit("upload", "none")
    /\ chain \in FlowChains(TRUE)
    /\ report = NoReport
    /\ sent = NoSent
    /\ call = NoCall
    /\ ret = NoRet

InitManager ==
    /\ hook = HookInit("manager", "queryFn")
    /\ chain \in FlowChains(FALSE)
    /\ report = NoReport
    /\ sent = NoSent
    /\ call = NoCall
    /\ ret = NoRet

\* mutationFn has thrown or an awaited promise has rejected: onError is due.
Thrown(h) == [h EXCEPT !.pc = "threw"]

\* The arguments of paymentMutation.mutateAsync taken from a report.
PaymentArgs(r) == <<r.value.totalLockupNeeded, r.value.rateNeeded, r.value.depositNeeded>>

\* depositWithPermitAndApproveOperator: the deposit and the creation fee are
\* added to the payments balance and the operator's allowances are set.
PaymentEffect(c, args) ==
    LET hasDataset == \E i \in DOMAIN c.datasets : c.datasets[i].withCDN = c.config.withCDN
        fee == IF hasDataset THEN 0 ELSE DATA_SET_CREATION_FEE
    IN  [c EXCEPT !.warmStorageBalance.currentLockupAllowance = args[1],
                  !.warmStorageBalance.currentRateAllowance = args[2],
                  !.storageBalance = @ + args[3] + fee]

\* The Submit button: enabled unless an attempt is running or a file has been
\* submitted, and always after an error.  The attempt throws at once without
\* a signer or an address; otherwise it resets the state and reads the file.
Mutate ==
    /\ hook.flow = "upload"
    /\ hook.mutation # "pending"
    /\ ~hook.uploadedInfo \/ hook.mutation = "error"
    /\ \E connected \in BOOLEAN :
           hook' = IF connected
                   THEN [hook EXCEPT !.mutation = "pending", !.pc = "arrayBuffer",
                                     !.progress = 0, !.uploadedInfo = FALSE, !.sdkPhase = 0,
                                     !.transactionSuccess = FALSE, !.serverConfirmed = FALSE]
                   ELSE Thrown([hook EXCEPT !.mutation = "pending"])
    /\ sent' = NoSent
    /\ report' = NoReport
    /\ UNCHANGED <<call, ret, chain>>

\* await file.arrayBuffer()
ArrayBufferSettled ==
    /\ hook.flow = "upload" /\ hook.pc = "arrayBuffer"
    /\ \E ok \in BOOLEAN :
           hook' = IF ok THEN [hook EXCEPT !.pc = "Synapse.create"] ELSE Thrown(hook)
    /\ UNCHANGED <<call, ret, chain, report, sent>>

\* await Synapse.create(...), then setProgress(5) and the call of the engine
SynapseCreateSettled ==
    /\ hook.flow = "upload" /\ hook.pc = "Synapse.create"
    /\ \E ok \in BOOLEAN :
           hook' = IF ok THEN [hook EXCEPT !.pc = "calculateStorageMetrics", !.progress = 5]
                   ELSE Thrown(hook)
    /\ UNCHANGED <<call, ret, chain, report, sent>>

\* await calculateStorageMetrics(synapse, config, file.size): on a report that
\* is not sufficient the payment mutation is invoked, otherwise createStorage.
CalculateStorageMetricsSettled ==
    /\ hook.flow = "upload" /\ hook.pc = "calculateStorageMetrics"
    /\ LET result == calculateStorageMetrics(chain, chain.fault)
           done == Append(sent, Event("calculateStorageMetrics", <<>>))
       IN  /\ report' = result
           /\ IF result.kind = "error"
              THEN /\ hook' = Thrown(hook)
                   /\ sent' = done
              ELSE IF ~result.value.isSufficient
              THEN /\ hook' = [hook EXCEPT !.pc = "payment"]
                   /\ sent' = Append(done, Event("payment", PaymentArgs(result)))
              ELSE /\ hook' = [hook EXCEPT !.pc = "createStorage", !.progress = 25]
                   /\ sent' = Append(done, Event("createStorage", <<>>))
    /\ UNCHANGED <<call, ret, chain>>

\* Mutant: a rejected payment is not propagated.
PaymentSettled_IgnoresFailure ==
    /\ hook.flow = "upload" /\ hook.pc = "payment"
    /\ \E ok \in BOOLEAN :
           /\ hook' = [hook EXCEPT !.pc = "createStorage", !.progress = 25]
           /\ sent' = sent \o <<Event(IF ok THEN "paymentSucceeded" ELSE "paymentFailed", <<>>),
                                Event("createStorage", <<>>)>>
           /\ chain' = IF ok THEN PaymentEffect(chain, sent[Len(sent)].args) ELSE chain
    /\ UNCHANGED <<call, ret, report>>

\* await paymentMutation.mutateAsync(...): when it resolves, setProgress(25)
\* and createStorage is invoked; when it rejects, the attempt fails.
PaymentSettled ==
    /\ hook.flow = "upload" /\ hook.pc = "payment"
    /\ \E ok \in BOOLEAN :
           IF ok
           THEN /\ hook' = [hook EXCEPT !.pc = "createStorage", !.progress = 25]
                /\ sent' = sent \o <<Event("paymentSucceeded", <<>>), Event("createStorage", <<>>)>>
                /\ chain' = PaymentEffect(chain, sent[Len(sent)].args)
           ELSE /\ hook' = Thrown(hook)
                /\ sent' = Append(sent, Event("paymentFailed", <<>>))
                /\ chain' = chain
    /\ UNCHANGED <<call, ret, report>>

\* The callbacks given to createStorage.  The SDK is taken to fire its
\* callbacks in the order of their phases (sdkPhase never goes back) and to
\* report a confirmation once it has reported it.
OnDataSetResolved ==
    /\ hook.flow = "upload" /\ hook.pc = "createStorage"
    /\ hook.sdkPhase < 1
    /\ hook' = [hook EXCEPT !.sdkPhase = 1, !.progress = 30]
    /\ UNCHANGED <<call, ret, chain, report, sent>>

OnDataSetCreationStarted ==
    /\ hook.flow = "upload" /\ hook.pc = "createStorage"
    /\ hook.sdkPhase < 2
    /\ hook' = [hook EXCEPT !.sdkPhase = 2, !.progress = 35]
    /\ UNCHANGED <<call, ret, chain, report, sent>>

OnDataSetCreationProgress ==
    /\ hook.flow = "upload" /\ hook.pc = "createStorage"
    /\ hook.sdkPhase <= 3
    /\ \E transactionSuccess \in BOOLEAN, serverConfirmed \in BOOLEAN :
           /\ hook.transactionSuccess => transactionSuccess
           /\ hook.serverConfirmed => serverConfirmed
           /\ hook' = [hook EXCEPT !.sdkPhase = 3,
                                   !.transactionSuccess = transactionSuccess,
                                   !.serverConfirmed = serverConfirmed,
                                   !.progress = IF serverConfirmed THEN 50
                                                ELSE IF transactionSuccess THEN 45 ELSE @]
    /\ UNCHANGED <<call, ret, chain, report, sent>>

OnProviderSelected ==
    /\ hook.flow = "upload" /\ hook.pc = "createStorage"
    /\ hook.sdkPhase < 4
    /\ hook' = [hook EXCEPT !.sdkPhase = 4]
    /\ UNCHANGED <<call, ret, chain, report, sent>>

\* await synapse.createStorage(...), then setProgress(55) and upload is invoked
CreateStorageSettled ==
    /\ hook.flow = "upload" /\ hook.pc = "createStorage"
    /\ \E ok \in BOOLEAN :
           IF ok
           THEN /\ hook' = [hook EXCEPT !.pc = "upload", !.progress = 55]
                /\ sent' = Append(sent, Event("upload", <<>>))
           ELSE /\ hook' = Thrown(hook)
                /\ sent' = sent
    /\ UNCHANGED <<call, ret, chain, report>>

\* The callbacks given to upload.
OnUploadComplete ==
    /\ hook.flow = "upload" /\ hook.pc = "upload"
    /\ hook.sdkPhase < 5
    /\ hook' = [hook EXCEPT !.sdkPhase = 5, !.progress = 80, !.uploadedInfo = TRUE]
    /\ UNCHANGED <<call, ret, chain, report, sent>>

OnPieceAdded ==
    /\ hook.flow = "upload" /\ hook.pc = "upload"
    /\ hook.sdkPhase < 6
    /\ \E transactionResponse \in BOOLEAN :
           hook' = [hook EXCEPT !.sdkPhase = 6, !.uploadedInfo = @ \/ transactionResponse]
    /\ UNCHANGED <<call, ret, chain, report, sent>>

OnPieceConfirmed ==
    /\ hook.flow = "upload" /\ hook.pc = "upload"
    /\ hook.sdkPhase < 7
    /\ hook' = [hook EXCEPT !.sdkPhase = 7, !.progress = 90]
    /\ UNCHANGED <<call, ret, chain, report, sent>>

\* await storageService.upload(...), then setProgress(95) and mutationFn returns
UploadSettled ==
    /\ hook.flow = "upload" /\ hook.pc = "upload"
    /\ \E ok \in BOOLEAN :
           hook' = IF ok THEN [hook EXCEPT !.pc = "returned", !.progress = 95, !.uploadedInfo = TRUE]
                   ELSE Thrown(hook)
    /\ UNCHANGED <<call, ret, chain, report, sent>>

OnSuccess ==
    /\ hook.flow = "upload" /\ hook.pc = "returned"
    /\ hook' = [hook EXCEPT !.mutation = "success", !.pc = "none", !.progress = 100]
    /\ UNCHANGED <<call, ret, chain, report, sent>>

\* Mutant: onError leaves the progress where the attempt stopped.
OnError_KeepsProgress ==
    /\ hook.flow = "upload" /\ hook.pc = "threw"
    /\ hook' = [hook EXCEPT !.mutation = "error", !.pc = "none"]
    /\ UNCHANGED <<call, ret, chain, report, sent>>

OnError ==
    /\ hook.flow = "upload" /\ hook.pc = "threw"
    /\ hook' = [hook EXCEPT !.mutation = "error", !.pc = "none", !.progress = 0]
    /\ UNCHANGED <<call, ret, chain, report, sent>>

\* The Reset button, disabled while an attempt is running.
HandleReset ==
    /\ hook.flow = "upload"
    /\ hook.mutation # "pending"
    /\ hook' = [hook EXCEPT !.progress = 0, !.uploadedInfo = FALSE]
    /\ UNCHANGED <<call, ret, chain, report, sent>>

\* useBalances: queryFn runs the engine; a failed query shows no report.
BalancesQuery ==
    /\ hook.flow = "manager" /\ hook.pc = "queryFn"
    /\ report' = calculateStorageMetrics(chain, chain.fault)
    /\ sent' = <<Event("calculateStorageMetrics", <<>>)>>
    /\ hook' = [hook EXCEPT !.pc = "shown"]
    /\ UNCHANGED <<call, ret, chain>>

\* PaymentActions: the button is rendered when the report is not sufficient;
\* its onClick awaits onPayment and then onRefreshBalances.
PaymentButtonClick ==
    /\ hook.flow = "manager" /\ hook.pc = "shown"
    /\ hook.mutation # "pending"
    /\ report.kind = "ok" /\ ~report.value.isSufficient
    /\ hook' = [hook EXCEPT !.pc = "onPayment", !.mutation = "pending"]
    /\ sent' = <<Event("payment", PaymentArgs(report))>>
    /\ UNCHANGED <<call, ret, chain, report>>

OnPaymentSettled ==
    /\ hook.flow = "manager" /\ hook.pc = "onPayment"
    /\ \E ok \in BOOLEAN :
           IF ok
           THEN /\ hook' = [hook EXCEPT !.pc = "onRefreshBalances", !.mutation = "success"]
                /\ sent' = Append(sent, Event("paymentSucceeded", <<>>))
                /\ chain' = PaymentEffect(chain, sent[Len(sent)].args)
           ELSE /\ hook' = [hook EXCEPT !.pc = "shown", !.mutation = "error"]
                /\ sent' = Append(sent, Event("paymentFailed", <<>>))
                /\ chain' = chain
    /\ UNCHANGED <<call, ret, report>>

\* refetch(): the engine runs again; a failed refetch keeps the data shown.
OnRefreshBalances ==
    /\ hook.flow = "manager" /\ hook.pc = "onRefreshBalances"
    /\ LET result == calculateStorageMetrics(chain, chain.fault)
       IN  report' = IF result.kind = "ok" THEN result ELSE report
    /\ sent' = Append(sent, Event("calculateStorageMetrics", <<>>))
    /\ hook' = [hook EXCEPT !.pc = "shown"]
    /\ UNCHANGED <<call, ret, chain>>

InitFlows == InitUpload \/ InitManager

NextFlows ==
    \/ Mutate
    \/ ArrayBufferSettled
    \/ SynapseCreateSettled
    \/ CalculateStorageMetricsSettled
    \/ PaymentSettled
    \/ OnDataSetResolved
    \/ OnDataSetCreationStarted
    \/ OnDataSetCreationProgress
    \/ OnProviderSelected
    \/ CreateStorageSettled
    \/ OnUploadComplete
    \/ OnPieceAdded
    \/ OnPieceConfirmed
    \/ UploadSettled
    \/ OnSuccess
    \/ OnError
    \/ HandleReset
    \/ BalancesQuery
    \/ PaymentButtonClick
    \/ OnPaymentSettled
    \/ OnRefreshBalances

SpecFlows == InitFlows /\ [][NextFlows]_vars

\* =====================================================================
\* Specification of the payment mutation: usePayment of
\* src/hooks/usePayment.ts (flow "payment") and the usePayment of
\* src/unnamed/part_008 (flow "payment_part_008").  chain holds the wallet:
\* its USDFC balance, its datasets and the configured CDN flag.  hook holds
\* the status of the mutation, the status text, and pc, the await that
\* mutationFn is suspended at.  sent lists the wallet operations invoked in
\* the current attempt.
\* =====================================================================

\* The status texts: the emoji that starts the text, and the rest.
NoStatus == <<"", "">>
SettingUp == <<"money bag", "Setting up your storage configuration...">>
Configured == <<"money bag", "You successfully configured your storage">>
PaymentSuccessful == <<"check mark", "Payment was successful!">>
Failed(message) ==
    <<"cross mark", IF message # "" THEN message ELSE "Transaction failed. Please try again.">>

\* The messages an awaited call rejects with: some text, or none.
RejectionMessages == {"", "rejected"}

\* The wallet balances on both sides of a deposit and of a deposit plus fee.
WalletBalances ==
    Amounts \cup {DATA_SET_CREATION_FEE + k : k \in Amounts}
            \cup {DATA_SET_CREATION_FEE - 1}

PaymentChains ==
    [kind : {"wallet"}, config : [withCDN : BOOLEAN],
     datasets : {<<>>, <<[withCDN |-> FALSE]>>, <<[withCDN |-> TRUE]>>},
     walletBalance : WalletBalances]

PaymentHookInit(flow) ==
    [flow |-> flow, mutation |-> "idle", pc |-> "none", status |-> NoStatus,
     depositAmount |-> 0, amount |-> 0, error |-> "", balanceRead |-> FALSE,
     balance |-> 0]

InitPayment ==
    /\ hook = PaymentHookInit("payment")
    /\ chain \in PaymentChains
    /\ report = NoReport /\ sent = NoSent /\ call = NoCall /\ ret = NoRet

InitPayment_part_008 ==
    /\ hook = PaymentHookInit("payment_part_008")
    /\ chain \in PaymentChains
    /\ report = NoReport /\ sent = NoSent /\ call = NoCall /\ ret = NoRet

\* mutationFn throws, or the promise it awaits rejects, with this message.
Reject(h, message) == [h EXCEPT !.pc = "threw", !.error = message]

\* An awaited call settles: mutationFn goes on to the next await, or rejects.
Settle(h, next) == {[h EXCEPT !.pc = next]} \cup {Reject(h, m) : m \in RejectionMessages}

\* mutate({lockupAllowance, epochRateAllowance, depositAmount}): the attempt
\* throws at once without an address, a signer, a client or a chain id.
PaymentMutate ==
    /\ hook.flow = "payment"
    /\ hook.mutation # "pending"
    /\ \E depositAmount \in Amounts, connected \in BOOLEAN :
           LET started == [hook EXCEPT !.mutation = "pending", !.depositAmount = depositAmount,
                                       !.amount = 0, !.error = "", !.balanceRead = FALSE,
                                       !.balance = 0]
           IN  hook' = IF connected THEN [started EXCEPT !.pc = "Synapse.create"]
                       ELSE Reject(started, "Signer not found")
    /\ sent' = NoSent
    /\ UNCHANGED <<call, ret, chain, report>>

\* await Synapse.create(...)
PaymentSynapseCreateSettled ==
    /\ hook.flow = "payment" /\ hook.pc = "Synapse.create"
    /\ hook' \in Settle(hook, "WarmStorageService.create")
    /\ UNCHANGED <<call, ret, chain, report, sent>>

\* await WarmStorageService.create(...)
WarmStorageServiceCreateSettled ==
    /\ hook.flow = "payment" /\ hook.pc = "WarmStorageService.create"
    /\ hook' \in Settle(hook, "getClientDataSetsWithDetails")
    /\ UNCHANGED <<call, ret, chain, report, sent>>

\* The creation fee of usePayment: due when no dataset has the configured
\* CDN flag.
PaymentFee(c) ==
    LET dataset == {i \in DOMAIN c.datasets : c.datasets[i].withCDN = c.config.withCDN}
        hasDataset == Cardinality(dataset) > 0
    IN  IF hasDataset THEN 0 ELSE DATA_SET_CREATION_FEE

\* await warmStorageService.getClientDataSetsWithDetails(address), then
\* amount = depositAmount + fee
GetClientDataSetsWithDetailsSettled ==
    /\ hook.flow = "payment" /\ hook.pc = "getClientDataSetsWithDetails"
    /\ hook' \in Settle([hook EXCEPT !.amount = hook.depositAmount + PaymentFee(chain)],
                        "walletBalance")
    /\ UNCHANGED <<call, ret, chain, report, sent>>

\* const balance = await synapse.payments.walletBalance(TOKENS.USDFC)
BalanceRead(h, c) == [h EXCEPT !.balanceRead = TRUE, !.balance = c.walletBalance]

\* await synapse.payments.walletBalance(TOKENS.USDFC), then the balance
\* check, setStatus and the multicall
WalletBalanceSettled ==
    /\ hook.flow = "payment" /\ hook.pc = "walletBalance"
    /\ \/ /\ hook' = IF chain.walletBalance < hook.amount
                     THEN Reject(BalanceRead(hook, chain), "Insufficient USDFC balance")
                     ELSE [BalanceRead(hook, chain) EXCEPT !.status = SettingUp,
                                       !.pc = "multicall"]
       \/ \E m \in RejectionMessages : hook' = Reject(hook, m)
    /\ UNCHANGED <<call, ret, chain, report, sent>>

\* await publicClient.multicall(...), then walletClient.signTypedData is
\* invoked with the permit
MulticallSettled ==
    /\ hook.flow = "payment" /\ hook.pc = "multicall"
    /\ hook' \in Settle(hook, "signTypedData")
    /\ sent' = IF hook'.pc = "signTypedData"
               THEN Append(sent, Event("signTypedData", <<hook.amount>>)) ELSE sent
    /\ UNCHANGED <<call, ret, chain, report>>

\* await walletClient.signTypedData(...), then walletClient.writeContract is
\* invoked with depositWithPermitAndApproveOperator
SignTypedDataSettled ==
    /\ hook.flow = "payment" /\ hook.pc = "signTypedData"
    /\ hook' \in Settle(hook, "writeContract")
    /\ sent' = IF hook'.pc = "writeContract"
               THEN Append(sent, Event("depositWithPermitAndApproveOperator", <<hook.amount>>))
               ELSE sent
    /\ UNCHANGED <<call, ret, chain, report>>

\* await walletClient.writeContract(...)
WriteContractSettled ==
    /\ hook.flow = "payment" /\ hook.pc = "writeContract"
    /\ hook' \in Settle(hook, "waitForTransactionReceipt")
    /\ UNCHANGED <<call, ret, chain, report, sent>>

\* await publicClient.waitForTransactionReceipt(...), then setStatus and
\* mutationFn returns; the deposit has left the wallet.
WaitForTransactionReceiptSettled ==
    /\ hook.flow = "payment" /\ hook.pc = "waitForTransactionReceipt"
    /\ \/ hook' = [hook EXCEPT !.status = Configured, !.pc = "returned"]
       \/ \E m \in RejectionMessages : hook' = Reject(hook, m)
    /\ chain' = IF hook'.pc = "returned"
                THEN [chain EXCEPT !.walletBalance = @ - hook.amount] ELSE chain
    /\ UNCHANGED <<call, ret, report, sent>>

PaymentOnSuccess ==
    /\ hook.flow = "payment" /\ hook.pc = "returned"
    /\ hook' = [hook EXCEPT !.mutation = "success", !.pc = "none", !.status = PaymentSuccessful]
    /\ UNCHANGED <<call, ret, chain, report, sent>>

PaymentOnError ==
    /\ hook.flow = "payment" /\ hook.pc = "threw"
    /\ hook' = [hook EXCEPT !.mutation = "error", !.pc = "none", !.status = Failed(hook.error)]
    /\ UNCHANGED <<call, ret, chain, report, sent>>

\* part_008: mutate({depositAmount})
PaymentMutate_part_008 ==
    /\ hook.flow = "payment_part_008"
    /\ hook.mutation # "pending"
    /\ \E depositAmount \in Amounts, connected \in BOOLEAN :
           LET started == [hook EXCEPT !.mutation = "pending", !.depositAmount = depositAmount,
                                       !.amount = 0, !.error = "", !.balanceRead = FALSE,
                                       !.balance = 0]
           IN  hook' = IF connected THEN [started EXCEPT !.pc = "Synapse.create"]
                       ELSE Reject(started, "Signer not found")
    /\ sent' = NoSent
    /\ UNCHANGED <<call, ret, chain, report>>

\* part_008: await Synapse.create(...), then amount = depositAmount
PaymentSynapseCreateSettled_part_008 ==
    /\ hook.flow = "payment_part_008" /\ hook.pc = "Synapse.create"
    /\ hook' \in Settle([hook EXCEPT !.amount = hook.depositAmount], "walletBalance")
    /\ UNCHANGED <<call, ret, chain, report, sent>>

\* part_008: await synapse.payments.walletBalance(TOKENS.USDFC), then the
\* balance check, setStatus, and the deposit (amount > 0n) or the approval
WalletBalanceSettled_part_008 ==
    /\ hook.flow = "payment_part_008" /\ hook.pc = "walletBalance"
    /\ \/ /\ hook' = IF chain.walletBalance < hook.amount
                     THEN Reject(BalanceRead(hook, chain), "Insufficient tUSDFC balance")
                     ELSE [BalanceRead(hook, chain) EXCEPT !.status = SettingUp,
                                       !.pc = IF hook.amount > 0
                                              THEN "depositWithPermitAndApproveOperator"
                                              ELSE "approveService"]
          /\ sent' = IF chain.walletBalance < hook.amount THEN sent
                     ELSE Append(sent, Event(hook'.pc, <<hook.amount>>))
       \/ /\ \E m \in RejectionMessages : hook' = Reject(hook, m)
          /\ sent' = sent
    /\ UNCHANGED <<call, ret, chain, report>>

\* part_008: await synapse.payments.depositWithPermitAndApproveOperator(...)
DepositWithPermitAndApproveOperatorSettled_part_008 ==
    /\ hook.flow = "payment_part_008" /\ hook.pc = "depositWithPermitAndApproveOperator"
    /\ hook' \in Settle(hook, "tx.wait")
    /\ UNCHANGED <<call, ret, chain, report, sent>>

\* part_008: await synapse.payments.approveService(...)
ApproveServiceSettled_part_008 ==
    /\ hook.flow = "payment_part_008" /\ hook.pc = "approveService"
    /\ hook' \in Settle(hook, "tx.wait")
    /\ UNCHANGED <<call, ret, chain, report, sent>>

\* part_008: await tx.wait(1), then setStatus and mutationFn returns
TxWaitSettled_part_008 ==
    /\ hook.flow = "payment_part_008" /\ hook.pc = "tx.wait"
    /\ \/ hook' = [hook EXCEPT !.status = Configured, !.pc = "returned"]
       \/ \E m \in RejectionMessages : hook' = Reject(hook, m)
    /\ chain' = IF hook'.pc = "returned"
                THEN [chain EXCEPT !.walletBalance = @ - hook.amount] ELSE chain
    /\ UNCHANGED <<call, ret, report, sent>>

PaymentOnSuccess_part_008 ==
    /\ hook.flow = "payment_part_008" /\ hook.pc = "returned"
    /\ hook' = [hook EXCEPT !.mutation = "success", !.pc = "none", !.status = PaymentSuccessful]
    /\ UNCHANGED <<call, ret, chain, report, sent>>

PaymentOnError_part_008 ==
    /\ hook.flow = "payment_part_008" /\ hook.pc = "threw"
    /\ hook' = [hook EXCEPT !.mutation = "error", !.pc = "none", !.status = Failed(hook.error)]
    /\ UNCHANGED <<call, ret, chain, report, sent>>

NextPayment ==
    \/ PaymentMutate
    \/ PaymentSynapseCreateSettled
    \/ WarmStorageServiceCreateSettled
    \/ GetClientDataSetsWithDetailsSettled
    \/ WalletBalanceSettled
    \/ MulticallSettled
    \/ SignTypedDataSettled
    \/ WriteContractSettled
    \/ WaitForTransactionReceiptSettled
    \/ PaymentOnSuccess
    \/ PaymentOnError
    \/ PaymentMutate_part_008
    \/ PaymentSynapseCreateSettled_part_008
    \/ WalletBalanceSettled_part_008
    \/ DepositWithPermitAndApproveOperatorSettled_part_008
    \/ ApproveServiceSettled_part_008
    \/ TxWaitSettled_part_008
    \/ PaymentOnSuccess_part_008
    \/ PaymentOnError_part_008

SpecPayment == (InitPayment \/ InitPayment_part_008) /\ [][NextPayment]_vars

\* =====================================================================
\* Specification of the datasets query: queryFn of useDatasets in
\* src/hooks/useDatasets.ts (flow "useDatasets") and of its copy in
\* src/hooks/useBalances.ts (flow "useDatasets_useBalances").  chain holds
\* what findDataSets, getProviderInfo, the PDPVerifier and each provider's
\* PDP server answer; hook holds pc and the values queryFn has so far;
\* report is what the query settles with.
\* =====================================================================

MaxDatasets == 2        \* datasets returned by findDataSets

\* {...a, ...b}: the properties of b override those of a.
Spread(a, b) == b @@ a

\* The sequences of n distinct dataset ids, in any order.
RECURSIVE IdOrders(_, _)
IdOrders(ids, n) ==
    IF n = 0 THEN {<<>>}
    ELSE {Append(s, x) : s \in IdOrders(ids, n - 1), x \in ids} \cap
         {s \in SeqsUpTo(ids, n) : \A i, j \in DOMAIN s : i # j => s[i] # s[j]}

\* A piece CID that parses, and one that does not.
ParsablePieceCid == COMMP_V2_PREFIX \o <<34, 0, 5>> \o Zeros(32)
UnparsablePieceCid == <<0>>

\* What pdpServer.getDataSet answers: it rejects, or it resolves with pieces.
GetDataSetAnswers ==
    {Err(<<"getDataSet">>)}
    \cup {Ok([pieces |-> pieces]) :
            pieces \in {<<>>, <<ParsablePieceCid>>, <<UnparsablePieceCid>>,
                        <<ParsablePieceCid, ParsablePieceCid>>}}

\* The providers: the first has a PDP product with a service URL.
ProviderInfos ==
    [id \in 1..2 |-> [id |-> id, serviceURL |-> IF id = 1 THEN "https://pdp" ELSE ""]]

DatasetChains ==
    UNION {[kind : {"pdp"},
            ids : IdOrders(1..MaxDatasets, n),
            providerId : [1..n -> 1..2],
            getDataSet : [1..n -> GetDataSetAnswers]] : n \in 0..MaxDatasets}

\* synapse.storage.findDataSets(): the basic info of each dataset.
findDataSets(c) ==
    [i \in DOMAIN c.ids |->
        [pdpVerifierDataSetId |-> c.ids[i], providerId |-> c.providerId[i], withCDN |-> FALSE]]

DatasetsHookInit(flow) ==
    [flow |-> flow, pc |-> "none", datasets |-> <<>>, datasetsSizeInfo |-> <<>>,
     providers |-> <<>>, datasetDataResults |-> <<>>]

InitDatasets ==
    /\ hook \in {DatasetsHookInit("useDatasets"), DatasetsHookInit("useDatasets_useBalances")}
    /\ chain \in DatasetChains
    /\ report = NoReport /\ sent = NoSent /\ call = NoCall /\ ret = NoRet

\* queryFn rejects: the query fails.
QueryFails(message) ==
    /\ report' = Err(<<message>>)
    /\ hook' = [hook EXCEPT !.pc = "done"]

\* queryFn starts (useDatasets.ts:48-52, useBalances.ts:386-390): it throws
\* without a signer.
DatasetsQueryFn ==
    /\ hook.flow \in {"useDatasets", "useDatasets_useBalances"}
    /\ hook.pc = "none"
    /\ \E signer \in BOOLEAN :
           IF signer THEN hook' = [hook EXCEPT !.pc = "Synapse.create"] /\ report' = report
           ELSE QueryFails("Signer not found")
    /\ UNCHANGED <<call, ret, chain, sent>>

\* await Synapse.create(...)
DatasetsSynapseCreateSettled ==
    /\ hook.flow \in {"useDatasets", "useDatasets_useBalances"}
    /\ hook.pc = "Synapse.create"
    /\ \E ok \in BOOLEAN :
           IF ok THEN hook' = [hook EXCEPT !.pc = "findDataSets"] /\ report' = report
           ELSE QueryFails("Synapse.create")
    /\ UNCHANGED <<call, ret, chain, sent>>

\* await synapse.storage.findDataSets() (useDatasets.ts:55, useBalances.ts:393)
FindDataSetsSettled ==
    /\ hook.flow \in {"useDatasets", "useDatasets_useBalances"}
    /\ hook.pc = "findDataSets"
    /\ \E ok \in BOOLEAN :
           IF ok
           THEN /\ hook' = [hook EXCEPT !.datasets = findDataSets(chain),
                                        !.pc = IF hook.flow = "useDatasets"
                                               THEN "getDatasetsSizeInfo" ELSE "getProviderInfo"]
                /\ report' = report
           ELSE QueryFails("findDataSets")
    /\ UNCHANGED <<call, ret, chain, sent>>

\* The size records of getDatasetsSizeInfo under the ids of their datasets.
SizeInfoById(datasets, info) ==
    [id \in {datasets[i].pdpVerifierDataSetId : i \in DOMAIN info} |->
        info[CHOOSE i \in DOMAIN info : datasets[i].pdpVerifierDataSetId = id]]

\* useDatasets.ts: await getDatasetsSizeInfo(datasets, synapse), which
\* resolves with {} when a PDPVerifier call fails.
GetDatasetsSizeInfoSettled ==
    /\ hook.flow = "useDatasets" /\ hook.pc = "getDatasetsSizeInfo"
    /\ \E lookupFails \in BOOLEAN :
           LET measured == [i \in DOMAIN hook.datasets |->
                               Spread(hook.datasets[i], [leafCount |-> i])]
           IN  hook' = [hook EXCEPT !.datasetsSizeInfo =
                                        SizeInfoById(hook.datasets,
                                                     getDatasetsSizeInfo(measured, lookupFails)),
                                    !.pc = "getProviderInfo"]
    /\ UNCHANGED <<call, ret, chain, report, sent>>

\* await Promise.all(datasets.map(... getProviderInfo ...))
\* (useDatasets.ts:60-62, useBalances.ts:396-398)
GetProviderInfoSettled ==
    /\ hook.flow \in {"useDatasets", "useDatasets_useBalances"}
    /\ hook.pc = "getProviderInfo"
    /\ \E ok \in BOOLEAN :
           IF ok
           THEN /\ hook' = [hook EXCEPT !.providers =
                                            [i \in DOMAIN hook.datasets |->
                                                ProviderInfos[hook.datasets[i].providerId]],
                                        !.pc = "getDataSet"]
                /\ report' = report
           ELSE QueryFails("getProviderInfo")
    /\ UNCHANGED <<call, ret, chain, sent>>

\* providers.find((p) => p.id === providerId): the first provider with the id.
FindProvider(providers, providerId) ==
    providers[CHOOSE i \in DOMAIN providers :
                  /\ providers[i].id = providerId
                  /\ \A j \in DOMAIN providers : providers[j].id = providerId => i <= j]

\* The pieces map: the info of each piece under its CID.
PieceSizes(pieces) ==
    [cid \in {pieces[k] : k \in DOMAIN pieces} |->
        getPieceInfoFromCidBytes([type |-> "bytes", value |-> cid])]

\* Whether building the pieces map throws.
PieceSizesThrow(pieces) == \E k \in DOMAIN pieces : PieceSizes(pieces)[pieces[k]].kind = "error"

\* The size properties spread into a dataset of useDatasets.ts: none when
\* datasetsSizeInfo has no record under the dataset's id.
SizeInfoOf(datasetsSizeInfo, id) ==
    IF id \in DOMAIN datasetsSizeInfo THEN datasetsSizeInfo[id] ELSE <<>>

\* Mutant: the entry of a failed detail fetch has no provider.
DatasetEntry_NoProvider(c, h, i) ==
    LET dataset == h.datasets[i]
        provider == FindProvider(h.providers, dataset.providerId)
        answer == c.getDataSet[i]
        sizes == SizeInfoOf(h.datasetsSizeInfo, dataset.pdpVerifierDataSetId)
    IN  IF answer.kind = "error" \/ PieceSizesThrow(answer.value.pieces)
        THEN Spread(Spread(dataset, [serviceURL |-> provider.serviceURL]), sizes)
        ELSE Spread(Spread(dataset,
                           [provider |-> provider, serviceURL |-> provider.serviceURL,
                            data |-> answer.value,
                            pieceSizes |-> [cid \in DOMAIN PieceSizes(answer.value.pieces) |->
                                               PieceSizes(answer.value.pieces)[cid].value]]),
                    sizes)

\* useDatasets.ts: what the async function given to datasets.map resolves
\* with for dataset i; whatever is thrown inside its try is caught.
DatasetEntry(c, h, i) ==
    LET dataset == h.datasets[i]
        provider == FindProvider(h.providers, dataset.providerId)
        answer == c.getDataSet[i]
        sizes == SizeInfoOf(h.datasetsSizeInfo, dataset.pdpVerifierDataSetId)
    IN  IF answer.kind = "error" \/ PieceSizesThrow(answer.value.pieces)
        THEN Spread(Spread(dataset, [provider |-> provider, serviceURL |-> provider.serviceURL]),
                    sizes)
        ELSE Spread(Spread(dataset,
                           [provider |-> provider, serviceURL |-> provider.serviceURL,
                            data |-> answer.value,
                            pieceSizes |-> [cid \in DOMAIN PieceSizes(answer.value.pieces) |->
                                               PieceSizes(answer.value.pieces)[cid].value]]),
                    sizes)

\* data.pieces.reverse()
Reverse(seq) == [k \in DOMAIN seq |-> seq[Len(seq) + 1 - k]]

RECURSIVE SumSizeBytes(_, _)
SumSizeBytes(pieces, sizes) ==
    IF pieces = <<>> THEN 0
    ELSE sizes[Head(pieces)].sizeBytes + SumSizeBytes(Tail(pieces), sizes)

\* useBalances.ts: what the async function given to datasets.map resolves
\* with for dataset i.  getSizeFromPieceCID of the SDK is taken to give the
\* size that the parser of cids.ts gives, and to throw where it throws.
DatasetEntry_useBalances(c, h, i) ==
    LET dataset == h.datasets[i]
        provider == FindProvider(h.providers, dataset.providerId)
        answer == c.getDataSet[i]
    IN  IF answer.kind = "error" \/ PieceSizesThrow(answer.value.pieces)
        THEN Spread(dataset, [provider |-> provider, serviceURL |-> provider.serviceURL])
        ELSE LET data == [pieces |-> Reverse(answer.value.pieces)]
                 pieces == [cid \in DOMAIN PieceSizes(data.pieces) |->
                               [sizeBytes |-> PieceSizes(data.pieces)[cid].value.sizeBytes]]
             IN  Spread(Spread(dataset, [sizeInBytes |-> SumSizeBytes(data.pieces, pieces)]),
                        [serviceURL |-> provider.serviceURL, data |-> data,
                         pieceSizes |-> pieces])

\* useDatasets.ts: the async function of one dataset settles, in any order.
GetDataSetSettled ==
    /\ hook.flow = "useDatasets" /\ hook.pc = "getDataSet"
    /\ \E i \in DOMAIN hook.datasets \ DOMAIN hook.datasetDataResults :
           hook' = [hook EXCEPT !.datasetDataResults = (i :> DatasetEntry(chain, hook, i)) @@ @]
    /\ UNCHANGED <<call, ret, chain, report, sent>>

\* useBalances.ts: the async function of one dataset settles, in any order.
GetDataSetSettled_useBalances ==
    /\ hook.flow = "useDatasets_useBalances" /\ hook.pc = "getDataSet"
    /\ \E i \in DOMAIN hook.datasets \ DOMAIN hook.datasetDataResults :
           hook' = [hook EXCEPT !.datasetDataResults =
                                    (i :> DatasetEntry_useBalances(chain, hook, i)) @@ @]
    /\ UNCHANGED <<call, ret, chain, report, sent>>

\* datasets.map((dataset) => datasetDataResults.find(... same id ...))
DatasetsWithDetails(datasets, datasetDataResults) ==
    [i \in DOMAIN datasets |->
        LET found == {j \in DOMAIN datasetDataResults :
                         datasetDataResults[j].pdpVerifierDataSetId =
                             datasets[i].pdpVerifierDataSetId}
        IN  IF found = {} THEN [found |-> FALSE]
            ELSE datasetDataResults[CHOOSE j \in found : \A k \in found : j <= k]]

\* useDatasets.ts: Promise.all has resolved; queryFn returns
\* {datasets: datasetsWithDetails}.
DatasetsReturned ==
    /\ hook.flow = "useDatasets" /\ hook.pc = "getDataSet"
    /\ DOMAIN hook.datasetDataResults = DOMAIN hook.datasets
    /\ report' = Ok(DatasetsWithDetails(hook.datasets, hook.datasetDataResults))
    /\ hook' = [hook EXCEPT !.pc = "done"]
    /\ UNCHANGED <<call, ret, chain, sent>>

\* useBalances.ts: Promise.all has resolved; queryFn returns the entries
\* that are not undefined.
DatasetsReturned_useBalances ==
    /\ hook.flow = "useDatasets_useBalances" /\ hook.pc = "getDataSet"
    /\ DOMAIN hook.datasetDataResults = DOMAIN hook.datasets
    /\ report' = Ok(SelectSeq(DatasetsWithDetails(hook.datasets, hook.datasetDataResults),
                              LAMBDA entry : "pdpVerifierDataSetId" \in DOMAIN entry))
    /\ hook' = [hook EXCEPT !.pc = "done"]
    /\ UNCHANGED <<call, ret, chain, sent>>

NextDatasets ==
    \/ DatasetsQueryFn
    \/ DatasetsSynapseCreateSettled
    \/ FindDataSetsSettled
    \/ GetDatasetsSizeInfoSettled
    \/ GetProviderInfoSettled
    \/ GetDataSetSettled
    \/ GetDataSetSettled_useBalances
    \/ DatasetsReturned
    \/ DatasetsReturned_useBalances

SpecDatasets == InitDatasets /\ [][NextDatasets]_vars

\* =====================================================================
\* DecimalFormatter.formatStorageAmount (src/utils/decimalUtils.ts), applied
\* to byte amounts on both sides of a tenth of each unit and to option
\* objects that give or leave out each option.
\* =====================================================================

\* SIZE_CONSTANTS.KiB and SIZE_CONSTANTS.MiB of @filoz/synapse-sdk
KiB == 1024
MiB == 1048576

\* An option of the options object, or its default when it is left out.
OptionOr(options, name, default) == IF name \in DOMAIN options THEN options[name] ELSE default

\* bytesToGiB(bytes).gte(0.1), and the same for MiB and KiB: bytes / unit >= 1 / 10
\* for a whole number of bytes.
AtLeastTenth(bytes, unit) == bytes >= (unit + 9) \div 10

\* amount.toDecimalPlaces(places).toString() followed by a unit: the amount is
\* kept as the exact quotient together with the places it is rounded to.
Formatted(n, d, places, unit) == [amount |-> Quotient(n, d), decimalPlaces |-> places, unit |-> unit]

\* formatStorageAmount(bytes, options).  '0 B' and '< 0.0001 B' are the two
\* texts for a zero amount.
formatStorageAmount(bytes, options) ==
    LET minUnit == OptionOr(options, "minUnit", "B")
        maxDecimals == OptionOr(options, "maxDecimals", 4)
        showZero == OptionOr(options, "showZero", TRUE)
    IN  IF bytes = 0
        THEN (IF showZero THEN Formatted(0, 1, 0, "B")
              ELSE [amount |-> "< 0.0001", decimalPlaces |-> 0, unit |-> "B"])
        ELSE IF AtLeastTenth(bytes, GiB) /\ minUnit # "MB" /\ minUnit # "KB" /\ minUnit # "B"
        THEN Formatted(bytes, GiB, maxDecimals, "GB")
        ELSE IF AtLeastTenth(bytes, MiB) /\ minUnit # "KB" /\ minUnit # "B"
        THEN Formatted(bytes, MiB, maxDecimals, "MiB")
        ELSE IF AtLeastTenth(bytes, KiB) /\ minUnit # "B"
        THEN Formatted(bytes, KiB, maxDecimals, "KiB")
        ELSE Formatted(bytes, 1, 0, "B")

\* Byte amounts: zero, one, and the amounts around a tenth of each unit and
\* around each unit.
ByteAmounts ==
    {0, 1}
    \cup UNION {{(unit + 9) \div 10 - 1, (unit + 9) \div 10, unit - 1, unit, unit + 1} :
                   unit \in {KiB, MiB, GiB}}

FormatOptions ==
    {a @@ b @@ c :
        a \in {<<>>} \cup {[minUnit |-> u] : u \in {"B", "KB", "MB", "GB"}},
        b \in {<<>>} \cup {[maxDecimals |-> d] : d \in {0, 2}},
        c \in {<<>>} \cup {[showZero |-> z] : z \in BOOLEAN}}

FormatCalls == [fn : {"formatStorageAmount"}, bytes : ByteAmounts, options : FormatOptions]

InitFormatter ==
    /\ call \in FormatCalls
    /\ ret = NoRet /\ chain = NoChain /\ report = NoReport
    /\ hook = NoHook /\ sent = NoSent

FormatStorageAmount ==
    /\ call.fn = "formatStorageAmount"
    /\ ~Returned("formatStorageAmount")
    /\ Return("formatStorageAmount", formatStorageAmount(call.bytes, call.options))
    /\ UNCHANGED <<call, chain, report, hook, sent>>

NextFormatter == FormatStorageAmount

SpecFormatter == InitFormatter /\ [][NextFormatter]_vars

\* =====================================================================
\* Properties
\* =====================================================================

Max(a, b) == IF a >= b THEN a ELSE b

\* C1: calculateTotalStorageRequirements never returns a totalLockupNeeded
\* below currentLockupAllowance nor a totalRateNeeded below
\* currentRateAllowance: it never recommends reducing a standing allowance.
C1_NeverReducesAllowance ==
    (call.fn = "requirements" /\ Returned("calculateTotalStorageRequirements")) =>
        LET r == ret["calculateTotalStorageRequirements"]
        IN  /\ r.totalLockupNeeded >= call.currentLockupAllowance
            /\ r.totalRateNeeded >= call.currentRateAllowance

\* The function has returned for allowances that exceed the projected needs.
C1_Witness ==
    /\ call.fn = "requirements" /\ Returned("calculateTotalStorageRequirements")
    /\ call.currentLockupAllowance >
           call.currentLockupUsed + call.dailyLockupRate * call.persistencePeriodDays
    /\ call.currentRateAllowance > call.currentRateUsed + call.newRateNeeded
    /\ call.dailyLockupRate > 0 /\ call.persistencePeriodDays > 0

\* C2: whenever isPaddingExcessive(padding, height) is true,
\* computePieceSizeBytes(padding, height) is 0; a positive piece size only
\* occurs when the padding is not excessive.
C2_ExcessivePaddingHasNoData ==
    (call.fn = "piece" /\ Returned("isPaddingExcessive")
                       /\ Returned("computePieceSizeBytes")) =>
        /\ ret["isPaddingExcessive"] => ret["computePieceSizeBytes"] = 0
        /\ ret["computePieceSizeBytes"] > 0 => ~ret["isPaddingExcessive"]

\* Both functions have returned for a padding strictly beyond the capacity.
C2_Witness ==
    /\ call.fn = "piece" /\ Returned("isPaddingExcessive")
    /\ Returned("computePieceSizeBytes")
    /\ ret["isPaddingExcessive"]
    /\ (128 * call.padding) \div 127 > 2 ^ (call.height + 5)

\* C3: computePieceSizeBytes(padding, height) is
\* max(0, 2^(height+5) - floor(128*padding/127)), never negative, and the
\* size reported for an identifier is that same value of the padding and
\* height parsed from its bytes.
C3_PieceSizeFormula ==
    /\ (call.fn = "piece" /\ Returned("computePieceSizeBytes")) =>
          /\ ret["computePieceSizeBytes"] =
                 Max(0, 2 ^ (call.height + 5) - (128 * call.padding) \div 127)
          /\ ret["computePieceSizeBytes"] >= 0
    /\ (call.fn = "cid" /\ Returned("getPieceInfoFromCidBytes")
                        /\ Returned("parseCommPFromCidBytes")
                        /\ ret["getPieceInfoFromCidBytes"].kind = "ok") =>
          LET parsed == ret["parseCommPFromCidBytes"].value
              size == ret["getPieceInfoFromCidBytes"].value.sizeBytes
          IN  /\ ret["parseCommPFromCidBytes"].kind = "ok"
              /\ size = Max(0, 2 ^ (parsed.height + 5) - (128 * parsed.padding) \div 127)
              /\ size >= 0

\* The size has been computed for a padding that is positive and not excessive.
C3_Witness ==
    /\ call.fn = "piece" /\ Returned("computePieceSizeBytes")
    /\ call.padding > 127 /\ call.height > 8
    /\ ret["computePieceSizeBytes"] > 0
    /\ ret["computePieceSizeBytes"] < 2 ^ (call.height + 5) - call.padding

\* C4: calculateStorageSufficiency returns isSufficient = TRUE exactly when
\* isRateSufficient and isLockupSufficient are both TRUE, and returns both
\* flags as separate fields.
C4_SufficientIffBoth ==
    (call.fn = "sufficiency" /\ Returned("calculateStorageSufficiency")) =>
        LET r == ret["calculateStorageSufficiency"]
        IN  /\ {"isRateSufficient", "isLockupSufficient", "isSufficient"} \subseteq DOMAIN r
            /\ r.isRateSufficient \in BOOLEAN /\ r.isLockupSufficient \in BOOLEAN
            /\ r.isSufficient = (r.isRateSufficient /\ r.isLockupSufficient)

\* The rate is sufficient, the lockup is not, and the verdict is insufficient.
C4_Witness ==
    /\ call.fn = "sufficiency" /\ Returned("calculateStorageSufficiency")
    /\ ret["calculateStorageSufficiency"].isRateSufficient
    /\ ~ret["calculateStorageSufficiency"].isLockupSufficient
    /\ ~ret["calculateStorageSufficiency"].isSufficient

\* C5: totalRateNeeded is currentRateUsed + newRateNeeded when
\* isAdditionalStorage is true and newRateNeeded otherwise, and
\* isRateSufficient is true exactly when currentRateAllowance >= totalRateNeeded.
C5_TotalRateNeeded ==
    (call.fn = "sufficiency" /\ Returned("calculateStorageSufficiency")) =>
        LET r == ret["calculateStorageSufficiency"]
            expected == IF call.isAdditionalStorage
                        THEN call.currentRateUsed + call.newRateNeeded
                        ELSE call.newRateNeeded
        IN  /\ r.totalRateNeeded = expected
            /\ r.isRateSufficient = (call.currentRateAllowance >= expected)

\* Scenario B has been evaluated: total 110 against an allowance of 100.
C5_Witness ==
    /\ call = ScenarioB /\ Returned("calculateStorageSufficiency")
    /\ ret["calculateStorageSufficiency"].totalRateNeeded = 110
    /\ ~ret["calculateStorageSufficiency"].isRateSufficient

CreationFees(c) ==
    {datasetsStorageInfo(c, f).value.dataSetCreationFee : f \in {"none", "getDatasetsSizeInfo"}}

\* C7: the deposit needed is max(0, requiredBalanceForPeriod - currentBalance),
\* where the required balance is the storage cost of the persistence period
\* plus the one-time creation fee and the balance is the wallet's payments
\* balance; it is 0 when the balance covers the required balance.
C7_DepositIsShortfall ==
    report.kind = "ok" =>
        \E fee \in CreationFees(chain) :
            LET requiredBalanceForPeriod ==
                    chain.warmStorageBalance.perEpoch * chain.config.persistencePeriod
                        * EPOCHS_PER_DAY + fee
            IN  report.value.depositNeeded =
                    Max(0, requiredBalanceForPeriod - chain.storageBalance)

\* C8: totalLockupNeeded is max(currentLockupAllowance, currentLockupUsed +
\* dailyLockupRate * persistencePeriodDays + creationFee), the creation fee
\* being 0 or the dataset creation fee.
C8_LockupIncludesCreationFee ==
    report.kind = "ok" =>
        \E fee \in CreationFees(chain) :
            LET w == chain.warmStorageBalance
                dailyLockupRate == w.perEpoch * EPOCHS_PER_DAY
            IN  report.value.totalLockupNeeded =
                    Max(w.currentLockupAllowance,
                        w.currentLockupUsed
                            + dailyLockupRate * chain.config.persistencePeriod + fee)

\* The Decimal d is the exact quotient n / m.
IsQuotient(d, n, m) == ~d.inf /\ d.den > 0 /\ d.num * m = n * d.den

\* C9: calculatePersistenceMetrics returns a value for every input; daysLeft
\* is +Infinity exactly when newDailyLockupRate is 0 and is
\* remainingLockup / newDailyLockupRate otherwise; the same holds of
\* daysLeftAtCurrentRate and currentDailyLockupRate.
C9_PersistenceMetrics ==
    (call.fn = "persistence" /\ Returned("calculatePersistenceMetrics")) =>
        LET r == ret["calculatePersistenceMetrics"]
        IN  /\ r.daysLeft.inf = (call.newDailyLockupRate = 0)
            /\ call.newDailyLockupRate # 0 =>
                   IsQuotient(r.daysLeft, call.remainingLockup, call.newDailyLockupRate)
            /\ r.daysLeftAtCurrentRate.inf = (call.currentDailyLockupRate = 0)
            /\ call.currentDailyLockupRate # 0 =>
                   IsQuotient(r.daysLeftAtCurrentRate, call.remainingLockup,
                              call.currentDailyLockupRate)

\* The metrics have been computed for a wallet that burns nothing now and
\* would burn at a positive rate after the upload.
C9_Witness ==
    /\ call.fn = "persistence" /\ Returned("calculatePersistenceMetrics")
    /\ call.currentDailyLockupRate = 0 /\ call.newDailyLockupRate > 1
    /\ call.remainingLockup > 0
    /\ ret["calculatePersistenceMetrics"].daysLeftAtCurrentRate.inf
    /\ ~ret["calculatePersistenceMetrics"].daysLeft.inf

\* The identifier is shorter than 4 bytes or does not start with the prefix.
MalformedPrefix(b) == Len(b) < 4 \/ \E i \in 1..4 : b[i] # COMMP_V2_PREFIX[i]

MalformedIdentifierError(r) ==
    /\ r.kind = "error"
    /\ r.message \in {"Cid data is too short", "Cid must be CommPv2 (bad prefix)"}

\* hex is the hex string, with or without the 0x, of a byte sequence.
IsHexOf(hex) ==
    /\ hexToBytes(hex).kind = "ok"
    /\ hex \in {bytesToHex(hexToBytes(hex).value),
                SubSeq(bytesToHex(hexToBytes(hex).value), 3, Len(bytesToHex(hexToBytes(hex).value)))}

\* C10: for an identifier shorter than 4 bytes or with a wrong prefix,
\* validateCommPv2Prefix, parseCommPFromCidBytes and getPieceInfoFromCidBytes
\* each throw the malformed-identifier error and return no value, whether the
\* bytes are given as a Uint8Array or as the hex string of those bytes.
C10_MalformedPrefixRejected ==
    /\ (call.fn = "cid" /\ MalformedPrefix(call.cidBytes)) =>
           \A f \in {"validateCommPv2Prefix", "parseCommPFromCidBytes",
                     "getPieceInfoFromCidBytes"} :
               Returned(f) => MalformedIdentifierError(ret[f])
    /\ (call.fn = "hex" /\ Returned("getPieceInfoFromCidBytes") /\ IsHexOf(call.hex)) =>
           (MalformedPrefix(hexToBytes(call.hex).value)
               => MalformedIdentifierError(ret["getPieceInfoFromCidBytes"]))

\* All three functions have thrown on a 3-byte identifier (Scenario E).
C10_Witness ==
    /\ call.fn = "cid" /\ Len(call.cidBytes) = 3
    /\ call.cidBytes = <<1, 85, 145>>
    /\ Returned("validateCommPv2Prefix") /\ Returned("parseCommPFromCidBytes")
    /\ Returned("getPieceInfoFromCidBytes")
    /\ ret["getPieceInfoFromCidBytes"].message = "Cid data is too short"

\* The declared multihash length of an identifier and the number of bytes
\* after the length field.
DeclaredLength(b) == readUvarint(b, 4)[1]
BytesAfterLength(b) == Len(b) - readUvarint(b, 4)[2]
DeclaredBelow34(b) == IsSmallBigInt(DeclaredLength(b)) /\ Number(DeclaredLength(b)) < 34
DeclaredMatches(b) ==
    IsSmallBigInt(DeclaredLength(b)) /\ Number(DeclaredLength(b)) = BytesAfterLength(b)
ValidPrefix(b) == Len(b) >= 4 /\ SubSeq(b, 1, 4) = COMMP_V2_PREFIX

\* C11 as stated: parseCommPFromCidBytes succeeds only if the declared
\* multihash length is at least 34 and equals the number of bytes after the
\* length field; a declared length below 34 fails as too short and every other
\* mismatch fails as a length mismatch.
C11_LengthMismatchOtherwise ==
    (call.fn = "cid" /\ ValidPrefix(call.cidBytes) /\ Returned("parseCommPFromCidBytes")) =>
        LET b == call.cidBytes
            r == ret["parseCommPFromCidBytes"]
        IN  /\ r.kind = "ok" => (~DeclaredBelow34(b) /\ DeclaredMatches(b))
            /\ DeclaredBelow34(b) => r = Err("CommPv2 multihash length must be at least 34")
            /\ (~DeclaredBelow34(b) /\ ~DeclaredMatches(b)) =>
                   r = Err("CommPv2 multihash length does not match data length")

\* C11 amended: as above, except that a declared length of 2^53 or more fails
\* as not a safe integer; only a declared length from 34 up to 2^53 - 1 that
\* differs from the number of bytes after the length field fails as a length
\* mismatch.
C11_DeclaredLengthChecked ==
    (call.fn = "cid" /\ ValidPrefix(call.cidBytes) /\ Returned("parseCommPFromCidBytes")) =>
        LET b == call.cidBytes
            r == ret["parseCommPFromCidBytes"]
        IN  /\ r.kind = "ok" => (~DeclaredBelow34(b) /\ DeclaredMatches(b))
            /\ DeclaredBelow34(b) => r = Err("CommPv2 multihash length must be at least 34")
            /\ ~isSafeInteger(DeclaredLength(b)) =>
                   r = Err("Multihash length is not a safe integer")
            /\ (isSafeInteger(DeclaredLength(b)) /\ ~DeclaredBelow34(b) /\ ~DeclaredMatches(b)) =>
                   r = Err("CommPv2 multihash length does not match data length")

\* A declared length of 2^53 has been rejected as not a safe integer.
C11_Witness ==
    /\ call.fn = "cid"
    /\ ValidPrefix(call.cidBytes)
    /\ DeclaredLength(call.cidBytes) = <<0, 0, 0, 0, 0, 0, 0, 16>>
    /\ Returned("parseCommPFromCidBytes")
    /\ ret["parseCommPFromCidBytes"].kind = "error"

\* The bytes after the height byte of an identifier.
BytesAfterHeight(b) == Len(b) - (readUvarint(b, readUvarint(b, 4)[2])[2] + 1)

\* C12: parseCommPFromCidBytes fails when fewer than 32 bytes follow the
\* height byte and never accepts an identifier in which more than 32 follow.
C12_ExactlyThirtyTwoRemain ==
    (call.fn = "cid" /\ ValidPrefix(call.cidBytes) /\ Returned("parseCommPFromCidBytes")) =>
        /\ BytesAfterHeight(call.cidBytes) < 32 => ret["parseCommPFromCidBytes"].kind = "error"
        /\ ret["parseCommPFromCidBytes"].kind = "ok" => BytesAfterHeight(call.cidBytes) = 32

\* The identifiers of scenario A: valid prefix, multihash length 34,
\* padding 0, height 5.
ScenarioA(b) ==
    /\ ValidPrefix(b)
    /\ Len(b) = 39
    /\ b[5] = 34 /\ b[6] = 0 /\ b[7] = 5

\* C13 as stated: for scenario A the decoded piece size is 32768 bytes and
\* the leaf count is 1024.
C13_ScenarioA_AsStated ==
    (call.fn = "cid" /\ ScenarioA(call.cidBytes) /\ Returned("getPieceInfoFromCidBytes")) =>
        /\ ret["getPieceInfoFromCidBytes"].kind = "ok"
        /\ ret["getPieceInfoFromCidBytes"].value.sizeBytes = 32768
        /\ ret["getPieceInfoFromCidBytes"].value.leafCount = 1024

\* C13 amended: for scenario A the decoded piece size is 1024 bytes (2^(5+5))
\* and the leaf count is 32 (2^5).
C13_ScenarioA ==
    (call.fn = "cid" /\ ScenarioA(call.cidBytes) /\ Returned("getPieceInfoFromCidBytes")) =>
        /\ ret["getPieceInfoFromCidBytes"].kind = "ok"
        /\ ret["getPieceInfoFromCidBytes"].value.sizeBytes = 1024
        /\ ret["getPieceInfoFromCidBytes"].value.leafCount = 32

C13_Witness ==
    /\ call.fn = "cid"
    /\ ScenarioA(call.cidBytes)
    /\ Returned("getPieceInfoFromCidBytes")
    /\ ret["getPieceInfoFromCidBytes"].kind = "ok"
    /\ ret["getPieceInfoFromCidBytes"].value.padding = 0
    /\ ret["getPieceInfoFromCidBytes"].value.height = 5

\* The collaborator call named by the fault is made during the run: the size
\* lookups are made only for a non-empty dataset list, and the balance is
\* fetched only after the capacity of the rate allowance has been computed.
FailedCallIsMade(c) ==
    /\ c.fault # "none"
    /\ c.fault = "getDatasetsSizeInfo" => Len(c.datasets) > 0
    /\ c.fault = "balance" => c.price # 0

\* C14: a failure of a collaborator call made during calculateStorageMetrics
\* makes it reject, with an error whose message contains the original error's
\* message; it never resolves with a report.
C14_FailuresAreWrapped ==
    (chain.kind = "chain" /\ report.kind # "none" /\ FailedCallIsMade(chain)) =>
        /\ report.kind = "error"
        /\ chain.rejectsWithError =>
               \E i \in DOMAIN report.message : report.message[i] = chain.fault

\* The positions in sent of the invocations of an operation.
Sent(op) == {i \in DOMAIN sent : sent[i].op = op}

\* C15: in both flows, once the payment invoked for an insufficient report has
\* succeeded, the engine is run again before the flow goes on: before
\* createStorage is invoked in the upload flow, and before the result is shown
\* in the storage manager.
C15_EngineRerunAfterPayment ==
    /\ hook.flow = "upload" =>
           \A p \in Sent("paymentSucceeded"), i \in Sent("createStorage") :
               p < i => \E j \in Sent("calculateStorageMetrics") : p < j /\ j < i
    /\ (hook.flow = "manager" /\ hook.pc = "shown") =>
           \A p \in Sent("paymentSucceeded") :
               \E j \in Sent("calculateStorageMetrics") : p < j

\* C19: in one upload attempt, calculateStorageMetrics has completed before
\* the payment, createStorage or upload is invoked; the payment is invoked at
\* most once, only for a report that is not sufficient and with that report's
\* totalLockupNeeded, rateNeeded and depositNeeded, and it has been invoked
\* whenever the engine has reported insufficiency; createStorage and upload
\* are invoked only after an invoked payment has succeeded, and never after it
\* has failed.
C19_PaymentBeforeUpload ==
    hook.flow = "upload" =>
        /\ \A i \in Sent("payment") \cup Sent("createStorage") \cup Sent("upload") :
               \E j \in Sent("calculateStorageMetrics") : j < i
        /\ Cardinality(Sent("payment")) <= 1
        /\ \A i \in Sent("payment") :
               /\ report.kind = "ok"
               /\ ~report.value.isSufficient
               /\ sent[i].args = <<report.value.totalLockupNeeded, report.value.rateNeeded,
                                   report.value.depositNeeded>>
        /\ (Sent("calculateStorageMetrics") # {} /\ report.kind = "ok"
              /\ ~report.value.isSufficient) => Sent("payment") # {}
        /\ \A i \in Sent("createStorage") \cup Sent("upload") :
               Sent("payment") # {} => \E p \in Sent("paymentSucceeded") : p < i
        /\ Sent("paymentFailed") # {} => Sent("createStorage") \cup Sent("upload") = {}

\* upload has been invoked after a payment that succeeded.
C19_Witness ==
    /\ hook.flow = "upload"
    /\ Sent("paymentSucceeded") # {}
    /\ Sent("upload") # {}

\* C20: the progress of useFileUpload is within 0..100, is 100 only when the
\* attempt has succeeded, is 0 after a failed attempt, never decreases while
\* an attempt is running (the SDK firing its callbacks in phase order), and
\* is 0 after handleReset.
C20_ProgressBounds ==
    /\ [](hook.flow = "upload" =>
             /\ hook.progress \in 0..100
             /\ hook.progress = 100 => hook.mutation = "success"
             /\ hook.mutation = "error" => hook.progress = 0)
    /\ [][(hook.flow = "upload" /\ hook.mutation = "pending" /\ hook'.mutation = "pending")
             => hook'.progress >= hook.progress]_vars
    /\ [][HandleReset => hook'.progress = 0]_vars

\* An attempt has failed after the upload had reached 80.
C20_Witness ==
    /\ hook.flow = "upload"
    /\ hook.mutation = "error"
    /\ hook.sdkPhase >= 5
    /\ hook.progress = 0

\* C16: every report of calculateStorageMetrics has depositNeeded >= 0, for
\* non-negative funds, a positive price per day and positive persistencePeriod
\* and minDaysThreshold (persistencePeriod < minDaysThreshold included).
C16_DepositNeededNonNegative ==
    (chain.kind \in {"chain", "part_009"} /\ report.kind = "ok") =>
        report.value.depositNeeded >= 0

\* Whether a result is a thrown error rather than a returned record.
Threw(r) == "kind" \in DOMAIN r /\ r.kind = "error"

\* C17: given a negative or NaN minDaysThreshold, calculateStorageSufficiency
\* returns what it returns for a threshold of zero, and given a negative or
\* NaN persistencePeriodDays, calculateTotalStorageRequirements does not
\* throw and returns what it returns for a period of zero, every amount
\* being non-negative.
C17_InvalidConfigTreatedAsZero ==
    /\ (call.fn = "invalidThreshold" /\ Returned("calculateStorageSufficiency")) =>
           LET r == ret["calculateStorageSufficiency"]
           IN  /\ ~Threw(r)
               /\ r = calculateStorageSufficiency(call.currentRateAllowance,
                                                  call.currentRateUsed, call.newRateNeeded,
                                                  call.remainingLockup, call.dailyLockupRate,
                                                  Num(0), call.isAdditionalStorage)
               /\ r.totalRateNeeded >= 0
    /\ (call.fn = "invalidPeriod" /\ Returned("calculateTotalStorageRequirements")) =>
           LET r == ret["calculateTotalStorageRequirements"]
           IN  /\ ~Threw(r)
               /\ r = calculateTotalStorageRequirements(call.currentLockupUsed,
                                                        call.currentLockupAllowance,
                                                        call.currentRateUsed,
                                                        call.currentRateAllowance,
                                                        call.newRateNeeded,
                                                        call.dailyLockupRate, Num(0),
                                                        call.currentBalance)
               /\ r.totalDepositNeeded >= 0
               /\ r.totalLockupNeeded >= 0
               /\ r.totalRateNeeded >= 0

\* C18: when the price per TiB per month is 0, calculateStorageCapacityGB
\* and calculateRateAllowanceGB (in Decimal and in bigint arithmetic) return
\* 0 GiB: none throws, and none returns Infinity or NaN.
C18_ZeroPriceZeroCapacity ==
    (call.fn = "capacity" /\ call.pricePerTBPerMonth = 0) =>
        /\ Returned("calculateStorageCapacityGB") =>
               ret["calculateStorageCapacityGB"] = Quotient(0, 1)
        /\ Returned("calculateRateAllowanceGB_Decimal") =>
               ret["calculateRateAllowanceGB_Decimal"] = Quotient(0, 1)
        /\ Returned("calculateRateAllowanceGB") =>
               ret["calculateRateAllowanceGB"] = Ok(Quotient(0, 1))

\* The balance read in the current attempt is below the deposit plus the
\* creation fee.
BalanceBelowDepositPlusFee ==
    /\ hook.flow \in {"payment", "payment_part_008"}
    /\ hook.balanceRead
    /\ hook.balance < hook.depositAmount + PaymentFee(chain)

\* The wallet operations that sign a permit or submit a transaction.
WalletOperations ==
    {"signTypedData", "depositWithPermitAndApproveOperator", "approveService"}

\* C21: in usePayment, when the wallet's USDFC balance is below depositAmount
\* plus the creation fee, the mutation fails with the insufficient-balance
\* error, no permit is signed and no deposit or approval transaction is
\* submitted, and the status of the settled mutation is an error status,
\* never a success status.
C21_InsufficientBalanceStopsPayment ==
    BalanceBelowDepositPlusFee =>
        /\ hook.error \in {"Insufficient USDFC balance", "Insufficient tUSDFC balance"}
        /\ hook.pc = "threw" \/ hook.mutation = "error"
        /\ \A i \in DOMAIN sent : sent[i].op \notin WalletOperations
        /\ hook.mutation = "error" => hook.status = Failed(hook.error)

\* The wallet has a dataset whose CDN flag equals the configured one.
HasMatchingDataset(c) == \E i \in DOMAIN c.datasets : c.datasets[i].withCDN = c.config.withCDN

\* C22: the dataset creation fee that calculateStorageMetrics works with is
\* DATA_SET_CREATION_FEE exactly when the wallet has no dataset whose CDN
\* flag equals config.withCDN, and 0 otherwise, whatever the outcome of the
\* dataset size lookup.
C22_CreationFeeIffNoMatchingDataset ==
    (chain.kind = "chain" /\ report.kind = "ok") =>
        datasetsStorageInfo(chain, chain.fault).value.dataSetCreationFee =
            IF HasMatchingDataset(chain) THEN 0 ELSE DATA_SET_CREATION_FEE

\* The detail fetch of dataset i fails: getDataSet rejects, or a piece of its
\* answer cannot be parsed.
DetailFetchFailed(c, i) ==
    c.getDataSet[i].kind = "error" \/ PieceSizesThrow(c.getDataSet[i].value.pieces)

\* C23: in useDatasets a failed detail fetch does not fail the query.  The
\* result has one entry per dataset of findDataSets, in the same order; every
\* entry has the basic info of its dataset, the entry of a dataset whose
\* detail fetch failed has its provider, and the entry of every other
\* dataset has all the pieces the PDP server returned, each with its size.
C23_DetailFailureKeepsDataset ==
    (hook.flow \in {"useDatasets", "useDatasets_useBalances"} /\ hook.pc = "done") =>
        /\ report.kind = "error" =>
               report.message \in {<<"Signer not found">>, <<"Synapse.create">>,
                                   <<"findDataSets">>, <<"getProviderInfo">>}
        /\ report.kind = "ok" =>
               /\ Len(report.value) = Len(chain.ids)
               /\ \A i \in DOMAIN chain.ids :
                      LET entry == report.value[i]
                          dataset == findDataSets(chain)[i]
                          pieces == chain.getDataSet[i].value.pieces
                      IN  /\ \A f \in DOMAIN dataset :
                                 f \in DOMAIN entry /\ entry[f] = dataset[f]
                          /\ DetailFetchFailed(chain, i) =>
                                 ("provider" \in DOMAIN entry
                                  /\ entry.provider = ProviderInfos[dataset.providerId])
                          /\ ~DetailFetchFailed(chain, i) =>
                                 ("data" \in DOMAIN entry
                                  /\ entry.data.pieces \in {pieces, Reverse(pieces)}
                                  /\ DOMAIN entry.pieceSizes = {pieces[k] : k \in DOMAIN pieces})

C23_Witness ==
    /\ hook.flow = "useDatasets" /\ hook.pc = "done" /\ report.kind = "ok"
    /\ chain.ids = <<2, 1>>
    /\ chain.getDataSet[1].kind = "error"
    /\ chain.getDataSet[2] = Ok([pieces |-> <<ParsablePieceCid>>])
    /\ report.value[1].pdpVerifierDataSetId = 2
    /\ "data" \notin DOMAIN report.value[1]
    /\ "data" \in DOMAIN report.value[2]

\* C24: formatStorageAmount with default options formats a non-zero byte
\* amount in the largest of GB, MiB and KiB in which it is at least 0.1, and
\* in bytes only when it is below 0.1 in all three.
C24_LargestUnitAtLeastTenth ==
    (call.fn = "formatStorageAmount" /\ Returned("formatStorageAmount")
     /\ call.options = <<>> /\ call.bytes # 0) =>
        ret["formatStorageAmount"].unit =
            IF AtLeastTenth(call.bytes, GiB) THEN "GB"
            ELSE IF AtLeastTenth(call.bytes, MiB) THEN "MiB"
            ELSE IF AtLeastTenth(call.bytes, KiB) THEN "KiB"
            ELSE "B"

\* C25: a report of calculateStorageMetrics with isSufficient = TRUE has
\* depositNeeded = 0.
C25_SufficientMeansNoDeposit ==
    (chain.kind = "chain" /\ report.kind = "ok" /\ report.value.isSufficient) =>
        report.value.depositNeeded = 0

\* C26: the depositNeeded of the report is the cost of the persistence
\* period at the needed rate, rateNeeded * persistencePeriod * EPOCHS_PER_DAY,
\* less the payments balance read with synapse.payments.balance, and 0 when
\* the balance covers the cost.
C26_DepositIsCostLessPaymentsBalance ==
    (chain.kind = "chain" /\ report.kind = "ok") =>
        LET cost == chain.warmStorageBalance.perEpoch * chain.config.persistencePeriod
                        * EPOCHS_PER_DAY
        IN  report.value.depositNeeded =
                IF chain.storageBalance >= cost THEN 0 ELSE cost - chain.storageBalance

\* C27: the rate check of calculateStorageMetrics compares the rate allowance
\* with currentRateUsed plus the needed rate exactly when a fileSize was
\* passed, and with the needed rate alone otherwise, whatever the dataset
\* creation fee.
C27_RateUsedAddedIffFileUpload ==
    (chain.kind = "chain" /\ report.kind = "ok") =>
        LET w == chain.warmStorageBalance
            totalRate == IF chain.fileSizeGiven THEN w.currentRateUsed + w.perEpoch
                         ELSE w.perEpoch
        IN  report.value.isRateSufficient = (w.currentRateAllowance >= totalRate)

====
